---- MODULE Spec2Model ----
(***************************************************************************)
(* A model of the text-adventure command pipeline: lexer, grammar parser,  *)
(* reference resolver, custom-action evaluator and turn engine.            *)
(*                                                                         *)
(* Representation.  Player input is a sequence of lexical parts (the       *)
(* pieces re.split(r"(\s+|[,.])") yields: words, runs of whitespace, ","   *)
(* and ".").  An object phrase is the sequence of its words; <<>> stands   *)
(* for Python's None (a joined phrase is never the empty string).          *)
(* Messages are strings.  Python's None for a string-valued field is the   *)
(* value None below.                                                       *)
(***************************************************************************)
EXTENDS Integers, Sequences, FiniteSets, TLC

VARIABLES game, state, result, call, session

vars == <<game, state, result, call, session>>

None == "<None>"

(* Python truthiness of an optional string: neither None nor "". *)
Truthy(v) == v # None /\ v # ""

(* sep.join(words) *)
RECURSIVE Join(_, _)
Join(words, sep) ==
    IF words = <<>> THEN ""
    ELSE IF Len(words) = 1 THEN words[1]
    ELSE words[1] \o sep \o Join(Tail(words), sep)

Range(seq) == {seq[i] : i \in DOMAIN seq}

(***************************************************************************)
(* models/command.py                                                       *)
(***************************************************************************)

VERB_ALIASES ==
    [w \in {"go", "walk", "move"} |-> "GO"] @@
    [w \in {"n", "north"} |-> "NORTH"] @@
    [w \in {"s", "south"} |-> "SOUTH"] @@
    [w \in {"e", "east"} |-> "EAST"] @@
    [w \in {"w", "west"} |-> "WEST"] @@
    [w \in {"u", "up"} |-> "UP"] @@
    [w \in {"d", "down"} |-> "DOWN"] @@
    [w \in {"in", "enter"} |-> "IN"] @@
    [w \in {"out", "exit", "leave"} |-> "OUT"] @@
    [w \in {"take", "get", "grab", "pick"} |-> "TAKE"] @@
    [w \in {"drop"} |-> "DROP"] @@
    [w \in {"put", "place"} |-> "PUT"] @@
    [w \in {"give"} |-> "GIVE"] @@
    [w \in {"examine", "x", "inspect"} |-> "EXAMINE"] @@
    [w \in {"look", "l"} |-> "LOOK"] @@
    [w \in {"read"} |-> "READ"] @@
    [w \in {"open"} |-> "OPEN"] @@
    [w \in {"close", "shut"} |-> "CLOSE"] @@
    [w \in {"lock"} |-> "LOCK"] @@
    [w \in {"unlock"} |-> "UNLOCK"] @@
    [w \in {"use"} |-> "USE"] @@
    [w \in {"talk", "speak", "say"} |-> "TALK"] @@
    [w \in {"show", "present", "display"} |-> "SHOW"] @@
    [w \in {"sing"} |-> "SING"] @@
    [w \in {"insert"} |-> "INSERT"] @@
    [w \in {"inventory", "i", "inv"} |-> "INVENTORY"] @@
    [w \in {"quit", "q"} |-> "QUIT"] @@
    [w \in {"help", "?"} |-> "HELP"] @@
    [w \in {"save"} |-> "SAVE"] @@
    [w \in {"load", "restore"} |-> "LOAD"] @@
    [w \in {"wait", "z"} |-> "WAIT"]

PREPOSITION_WORDS ==
    [w \in {"in", "into", "inside"} |-> "IN"] @@
    [w \in {"on", "onto", "upon"} |-> "ON"] @@
    [w \in {"with", "using"} |-> "WITH"] @@
    [w \in {"to"} |-> "TO"] @@
    [w \in {"from"} |-> "FROM"] @@
    [w \in {"at"} |-> "AT"] @@
    [w \in {"under", "beneath", "below"} |-> "UNDER"]

(* [k for k, v in PREPOSITION_WORDS.items() if v == prep][0]: the first    *)
(* word registered for a preposition, in the table's insertion order.      *)
FirstPrepWord(prep) ==
    CASE prep = "IN" -> "in"
      [] prep = "ON" -> "on"
      [] prep = "WITH" -> "with"
      [] prep = "TO" -> "to"
      [] prep = "FROM" -> "from"
      [] prep = "AT" -> "at"
      [] prep = "UNDER" -> "under"

DIRECTION_VERBS == {"NORTH", "SOUTH", "EAST", "WEST", "UP", "DOWN", "IN", "OUT"}

VERBS_REQUIRING_OBJECT ==
    {"TAKE", "DROP", "PUT", "GIVE", "EXAMINE", "READ", "OPEN", "CLOSE",
     "LOCK", "UNLOCK", "USE", "TALK", "SHOW", "INSERT"}

VERBS_WITH_INDIRECT == {"PUT", "GIVE", "UNLOCK", "LOCK", "USE", "SHOW", "INSERT"}

(* A parsed command.  custom_verb is None unless verb = "CUSTOM". *)
Command(verb, direct, prep, indirect, custom) ==
    [verb |-> verb, direct_object |-> direct, preposition |-> prep,
     indirect_object |-> indirect, custom_verb |-> custom]

(***************************************************************************)
(* parser/lexer.py                                                         *)
(***************************************************************************)

(* A variant of the article list without "the". *)
ARTICLES_without_the == {"a", "an"}

ARTICLES == {"a", "an", "the"}

CONJUNCTIONS == {"and", "&"}

CONTRACTIONS ==
    ("don't" :> <<"do", " ", "not">>) @@
    ("doesn't" :> <<"does", " ", "not">>) @@
    ("can't" :> <<"cannot">>) @@
    ("won't" :> <<"will", " ", "not">>) @@
    ("i'm" :> <<"i", " ", "am">>) @@
    ("it's" :> <<"it", " ", "is">>) @@
    ("that's" :> <<"that", " ", "is">>) @@
    ("what's" :> <<"what", " ", "is">>) @@
    ("where's" :> <<"where", " ", "is">>)

(* str.lower() on the parts the model feeds in. *)
UpperParts ==
    ("TAKE" :> "take") @@ ("The" :> "the") @@ ("THE" :> "the") @@
    ("Quit" :> "quit") @@ ("NORTH" :> "north") @@ ("Key" :> "key") @@
    ("AN" :> "an") @@ ("A" :> "a") @@ ("EAST" :> "east") @@ ("BRASS" :> "brass") @@
    ("KEY" :> "key") @@ ("LOOK" :> "look") @@ ("QUIT" :> "quit") @@
    ("XYZZY" :> "xyzzy") @@ ("DROP" :> "drop") @@ ("ROPE" :> "rope")

Lower(part) == IF part \in DOMAIN UpperParts THEN UpperParts[part] ELSE part

(* part.strip() == "" *)
IsBlank(part) == part \in {"", " ", "  ", "\t"}

Token(type, value, original) == [type |-> type, value |-> value, original |-> original]

(* text.replace(contraction, expansion) followed by the regex split, on a  *)
(* text that is already cut into parts.                                    *)
RECURSIVE ExpandParts(_)
ExpandParts(parts) ==
    IF parts = <<>> THEN <<>>
    ELSE LET p == Lower(Head(parts))
         IN  (IF p \in DOMAIN CONTRACTIONS THEN CONTRACTIONS[p] ELSE <<p>>)
             \o ExpandParts(Tail(parts))

RECURSIVE TokensOf(_)
TokensOf(parts) ==
    IF parts = <<>> THEN <<>>
    ELSE LET part == Head(parts)
             rest == TokensOf(Tail(parts))
         IN  IF IsBlank(part) THEN rest
             ELSE IF part = "," THEN <<Token("COMMA", ",", part)>> \o rest
             ELSE IF part = "." THEN rest
             ELSE IF part \in CONJUNCTIONS THEN <<Token("AND", "and", part)>> \o rest
             ELSE IF part \in ARTICLES THEN rest
             ELSE <<Token("WORD", part, part)>> \o rest

tokenize(text) == TokensOf(ExpandParts(text))

RECURSIVE tokens_to_words(_)
tokens_to_words(tokens) ==
    IF tokens = <<>> THEN <<>>
    ELSE (IF Head(tokens).type = "WORD" THEN <<Head(tokens).value>> ELSE <<>>)
         \o tokens_to_words(Tail(tokens))

(***************************************************************************)
(* parser/parser.py, parser/game_parser.py                                 *)
(***************************************************************************)

MULTI_WORD_VERBS ==
    (<<"pick", "up">> :> "TAKE") @@ (<<"put", "down">> :> "DROP") @@
    (<<"look", "at">> :> "EXAMINE") @@ (<<"look", "in">> :> "EXAMINE") @@
    (<<"look", "under">> :> "EXAMINE") @@ (<<"turn", "on">> :> "USE") @@
    (<<"turn", "off">> :> "USE") @@ (<<"switch", "on">> :> "USE") @@
    (<<"switch", "off">> :> "USE")

DIRECTION_WORDS ==
    [w \in {"north", "n"} |-> "NORTH"] @@
    [w \in {"south", "s"} |-> "SOUTH"] @@
    [w \in {"east", "e"} |-> "EAST"] @@
    [w \in {"west", "w"} |-> "WEST"] @@
    [w \in {"up", "u"} |-> "UP"] @@
    [w \in {"down", "d"} |-> "DOWN"] @@
    [w \in {"in", "enter", "inside"} |-> "IN"] @@
    [w \in {"out", "outside", "exit"} |-> "OUT"]

(* str.capitalize() on the verb and preposition words that reach it. *)
CapitalWords ==
    ("take" :> "Take") @@ ("drop" :> "Drop") @@ ("put" :> "Put") @@
    ("give" :> "Give") @@ ("examine" :> "Examine") @@ ("read" :> "Read") @@
    ("open" :> "Open") @@ ("close" :> "Close") @@ ("lock" :> "Lock") @@
    ("unlock" :> "Unlock") @@ ("use" :> "Use") @@ ("talk" :> "Talk") @@
    ("show" :> "Show") @@ ("insert" :> "Insert") @@ ("in" :> "In") @@
    ("on" :> "On") @@ ("with" :> "With") @@ ("to" :> "To") @@
    ("from" :> "From") @@ ("at" :> "At") @@ ("under" :> "Under") @@
    ("pray" :> "Pray") @@ ("dance" :> "Dance")

Capitalize(w) == IF w \in DOMAIN CapitalWords THEN CapitalWords[w] ELSE w

(* Verb.X.name.lower() *)
VerbNameLower ==
    ("TAKE" :> "take") @@ ("DROP" :> "drop") @@ ("PUT" :> "put") @@
    ("GIVE" :> "give") @@ ("EXAMINE" :> "examine") @@ ("READ" :> "read") @@
    ("OPEN" :> "open") @@ ("CLOSE" :> "close") @@ ("LOCK" :> "lock") @@
    ("UNLOCK" :> "unlock") @@ ("USE" :> "use") @@ ("TALK" :> "talk") @@
    ("SHOW" :> "show") @@ ("INSERT" :> "insert")

NoCommand == Command("None", <<>>, None, <<>>, None)

ParseFail(message) == [kind |-> "fail", command |-> NoCommand, message |-> message]

(* Command.__post_init__ raises ValueError on a malformed command; the     *)
(* exception leaves the parser and the engine.                             *)
CommandIsValid(cmd) ==
    /\ ~(cmd.indirect_object # <<>> /\ cmd.preposition = None)
    /\ ~(cmd.preposition # None
         /\ ~(cmd.direct_object # <<>> /\ cmd.indirect_object # <<>>))

ParseOk(cmd) ==
    IF CommandIsValid(cmd)
    THEN [kind |-> "ok", command |-> cmd, message |-> ""]
    ELSE [kind |-> "raise", command |-> NoCommand, message |-> "ValueError"]

(* Index of the first word of remaining that is in preps, 0 when none. *)
RECURSIVE FirstPrepFrom(_, _, _)
FirstPrepFrom(remaining, preps, i) ==
    IF i > Len(remaining) THEN 0
    ELSE IF remaining[i] \in preps THEN i
    ELSE FirstPrepFrom(remaining, preps, i + 1)

parse_with_verb(verb, custom_verb_name, remaining) ==
    IF verb = "GO" THEN
        IF remaining = <<>> THEN ParseFail("Go where?")
        ELSE IF remaining[1] \in DOMAIN DIRECTION_WORDS
        THEN ParseOk(Command(DIRECTION_WORDS[remaining[1]], <<>>, None, <<>>, None))
        ELSE ParseFail("I don't know how to go \"" \o remaining[1] \o "\".")
    ELSE IF verb = "LOOK" /\ remaining = <<>>
    THEN ParseOk(Command("LOOK", <<>>, None, <<>>, None))
    ELSE IF verb \in VERBS_REQUIRING_OBJECT /\ remaining = <<>>
    THEN ParseFail(Capitalize(VerbNameLower[verb]) \o " what?")
    ELSE IF remaining = <<>>
    THEN ParseOk(Command(verb, <<>>, None, <<>>, custom_verb_name))
    ELSE
        LET prep_index == IF verb \in VERBS_WITH_INDIRECT
                          THEN FirstPrepFrom(remaining, DOMAIN PREPOSITION_WORDS, 1)
                          ELSE 0
        IN  IF prep_index > 0 THEN
                LET prep == PREPOSITION_WORDS[remaining[prep_index]]
                    direct_words == SubSeq(remaining, 1, prep_index - 1)
                    indirect_words == SubSeq(remaining, prep_index + 1, Len(remaining))
                IN  IF direct_words = <<>>
                    THEN ParseFail(Capitalize(VerbNameLower[verb]) \o " what?")
                    ELSE IF indirect_words = <<>>
                    THEN ParseFail(Capitalize(FirstPrepWord(prep)) \o " what?")
                    ELSE ParseOk(Command(verb, direct_words, prep, indirect_words,
                                         custom_verb_name))
            ELSE ParseOk(Command(verb, remaining, None, <<>>, custom_verb_name))

(* GameParser.__init__: custom_verbs[verb.lower()] = info; a later          *)
(* definition of the same name replaces an earlier one.                    *)
RECURSIVE LastVerbIndex(_, _, _)
LastVerbIndex(verbs, name, i) ==
    IF i = 0 THEN 0
    ELSE IF Lower(verbs[i].verb) = name THEN i
    ELSE LastVerbIndex(verbs, name, i - 1)

custom_verbs(g) == {Lower(g.verbs[i].verb) : i \in DOMAIN g.verbs}

RECURSIVE LastAliasIndex(_, _, _)
LastAliasIndex(verbs, alias, i) ==
    IF i = 0 THEN 0
    ELSE IF alias \in {Lower(a) : a \in Range(verbs[i].aliases)} THEN i
    ELSE LastAliasIndex(verbs, alias, i - 1)

custom_verb_aliases(g) ==
    UNION {{Lower(a) : a \in Range(g.verbs[i].aliases)} : i \in DOMAIN g.verbs}

parse_custom_verb(g, verb_name, remaining) ==
    LET info == g.verbs[LastVerbIndex(g.verbs, verb_name, Len(g.verbs))]
    IN  IF info.requires_object /\ remaining = <<>>
        THEN ParseFail(Capitalize(verb_name) \o " what?")
        ELSE IF remaining = <<>>
        THEN ParseOk(Command("CUSTOM", <<>>, None, <<>>, verb_name))
        ELSE
            LET valid_preps == IF info.prepositions # <<>>
                               THEN Range(info.prepositions)
                               ELSE DOMAIN PREPOSITION_WORDS
                prep_index == IF info.requires_indirect \/ info.prepositions # <<>>
                              THEN FirstPrepFrom(remaining,
                                       valid_preps \cap DOMAIN PREPOSITION_WORDS, 1)
                              ELSE 0
            IN  IF prep_index > 0 THEN
                    LET prep == PREPOSITION_WORDS[remaining[prep_index]]
                        direct_words == SubSeq(remaining, 1, prep_index - 1)
                        indirect_words ==
                            SubSeq(remaining, prep_index + 1, Len(remaining))
                    IN  IF direct_words = <<>> /\ info.requires_object
                        THEN ParseFail(Capitalize(verb_name) \o " what?")
                        ELSE IF indirect_words = <<>>
                        THEN ParseFail(Capitalize(FirstPrepWord(prep)) \o " what?")
                        ELSE ParseOk(Command("CUSTOM", direct_words, prep,
                                             indirect_words, verb_name))
                ELSE ParseOk(Command("CUSTOM", remaining, None, <<>>, verb_name))

(* raw_input = text.strip(); "not raw_input" *)
IsEmptyText(text) == \A i \in DOMAIN text : IsBlank(text[i])

GameParser_parse(g, text) ==
    IF IsEmptyText(text) THEN ParseFail("I beg your pardon?")
    ELSE
    LET tokens == tokenize(text)
        words == tokens_to_words(tokens)
    IN  IF tokens = <<>> THEN ParseFail("I beg your pardon?")
        ELSE IF words = <<>> THEN ParseFail("I don't understand that.")
        ELSE
        LET first_word == words[1]
            remaining == Tail(words)
        IN  IF remaining # <<>> /\ <<first_word, remaining[1]>> \in DOMAIN MULTI_WORD_VERBS
            THEN parse_with_verb(MULTI_WORD_VERBS[<<first_word, remaining[1]>>], None,
                                 Tail(remaining))
            ELSE IF first_word \in DOMAIN VERB_ALIASES
            THEN parse_with_verb(VERB_ALIASES[first_word], None, remaining)
            ELSE IF first_word \in DOMAIN DIRECTION_WORDS
            THEN ParseOk(Command(DIRECTION_WORDS[first_word], <<>>, None, <<>>, None))
            ELSE IF first_word \in custom_verbs(g)
            THEN parse_custom_verb(g, first_word, remaining)
            ELSE IF first_word \in custom_verb_aliases(g)
            THEN parse_custom_verb(g,
                     Lower(g.verbs[LastAliasIndex(g.verbs, first_word, Len(g.verbs))].verb),
                     remaining)
            ELSE ParseFail("I don't know the word \"" \o first_word \o "\".")

(***************************************************************************)
(* models/game.py                                                          *)
(***************************************************************************)

(* Exit: a bare room id (isinstance(exit_info, str)) or an Exit record. *)
StrExit(target) ==
    [is_str |-> TRUE, target |-> target, locked |-> FALSE,
     lock_message |-> "The way is locked.", unlock_object |-> None, hidden |-> FALSE]

Exit(target, locked, lock_message) ==
    [is_str |-> FALSE, target |-> target, locked |-> locked,
     lock_message |-> lock_message, unlock_object |-> None, hidden |-> FALSE]

Room(id, name, description, exits, objects) ==
    [id |-> id, name |-> name, description |-> description, exits |-> exits,
     objects |-> objects, first_visit_description |-> None]

(* Room.exits is a dict: an ordered list of (direction, exit) entries with  *)
(* distinct directions.                                                    *)
ExitEntry(direction, exit) == [direction |-> direction, exit |-> exit]

RECURSIVE ExitIndex(_, _, _)
ExitIndex(exits, direction, i) ==
    IF i > Len(exits) THEN 0
    ELSE IF exits[i].direction = direction THEN i
    ELSE ExitIndex(exits, direction, i + 1)

HasExit(room, direction) == ExitIndex(room.exits, direction, 1) # 0

ExitOf(room, direction) == room.exits[ExitIndex(room.exits, direction, 1)].exit

(* ObjectAction: a bare string (is_str) or a rule.  condition is a token   *)
(* sequence, <<>> when absent; state_changes keeps the dict's order.       *)
StrAction(message) ==
    [is_str |-> TRUE, message |-> message, condition |-> <<>>, fail_message |-> None,
     state_changes |-> <<>>, consumes_object |-> FALSE, reveals_object |-> None,
     moves_player |-> None]

ObjectAction(message) == [StrAction(message) EXCEPT !.is_str = FALSE]

NoActions == [k \in {} |-> StrAction("")]

(* GameObject.validate_attributes (model_validator, mode="after") *)
validate_attributes(o) ==
    [o EXCEPT !.takeable = IF o.scenery THEN FALSE ELSE o.takeable,
              !.openable = IF o.container THEN TRUE ELSE o.openable,
              !.lockable = IF o.locked THEN TRUE ELSE o.lockable]

(* GameObject with the field defaults of the model class. *)
GameObject(id, name, location) ==
    [id |-> id, name |-> name, adjectives |-> <<>>, description |-> "A " \o name \o ".",
     examine_text |-> None, location |-> location, takeable |-> TRUE,
     droppable |-> TRUE, readable |-> FALSE, read_text |-> None, openable |-> FALSE,
     is_open |-> FALSE, container |-> FALSE, lockable |-> FALSE, locked |-> FALSE,
     key_object |-> None, is_lit |-> FALSE, worn |-> FALSE, actions |-> NoActions,
     scenery |-> FALSE, hidden |-> FALSE]

VerbDefinition(verb, aliases) ==
    [verb |-> verb, aliases |-> aliases, requires_object |-> FALSE,
     requires_indirect |-> FALSE, prepositions |-> <<>>,
     default_message |-> "Nothing happens."]

(* WinCondition: a tree; conditions is <<>> for a leaf. *)
WinCondition(type, room, object, flag, conditions) ==
    [type |-> type, room |-> room, object |-> object, flag |-> flag,
     conditions |-> conditions, win_message |-> "Congratulations! You have won!"]

ReachRoom(room) == WinCondition("reach_room", room, None, None, <<>>)
HaveObject(object) == WinCondition("have_object", None, object, None, <<>>)
FlagSet(flag) == WinCondition("flag_set", None, None, flag, <<>>)

NoRoom == [id |-> None]
NoObject == [id |-> None]

RECURSIVE IndexOfId(_, _, _)
IndexOfId(seq, id, i) ==
    IF i > Len(seq) THEN 0
    ELSE IF seq[i].id = id THEN i
    ELSE IndexOfId(seq, id, i + 1)

get_room(g, room_id) ==
    LET i == IndexOfId(g.rooms, room_id, 1)
    IN  IF i = 0 THEN NoRoom ELSE g.rooms[i]

get_object(g, object_id) ==
    LET i == IndexOfId(g.objects, object_id, 1)
    IN  IF i = 0 THEN NoObject ELSE g.objects[i]

(***************************************************************************)
(* models/state.py                                                         *)
(***************************************************************************)

ObjectState(location, is_open, locked, is_lit, worn, hidden, examined) ==
    [location |-> location, is_open |-> is_open, locked |-> locked, is_lit |-> is_lit,
     worn |-> worn, hidden |-> hidden, examined |-> examined]

ObjectIds(g) == {g.objects[i].id : i \in DOMAIN g.objects}
RoomIds(g) == {g.rooms[i].id : i \in DOMAIN g.rooms}

(* objects[obj.id] = ...: a later object with the same id wins. *)
RECURSIVE LastIndexOfId(_, _, _)
LastIndexOfId(seq, id, i) ==
    IF i = 0 THEN 0
    ELSE IF seq[i].id = id THEN i
    ELSE LastIndexOfId(seq, id, i - 1)

(* A variant that leaves every object at its defined location. *)
from_game_defined_locations(g) ==
    LET initial == g.initial_state
        objects == [id \in ObjectIds(g) |->
                      LET obj == g.objects[LastIndexOfId(g.objects, id, Len(g.objects))]
                      IN  ObjectState(obj.location,
                                      obj.is_open, obj.locked, obj.is_lit, obj.worn,
                                      obj.hidden, FALSE)]
        rooms == [id \in RoomIds(g) |-> [visited |-> id = initial.current_room]]
    IN  [current_room |-> initial.current_room,
         inventory |-> initial.inventory,
         turns |-> 0,
         score |-> 0,
         flags |-> initial.flags,
         objects |-> objects,
         rooms |-> rooms,
         game_over |-> FALSE,
         won |-> FALSE,
         death_message |-> None]

(* A variant that creates every room unvisited, the starting room too. *)
from_game_unvisited(g) ==
    [current_room |-> g.initial_state.current_room,
     inventory |-> g.initial_state.inventory,
     turns |-> 0,
     score |-> 0,
     flags |-> g.initial_state.flags,
     objects |-> [id \in ObjectIds(g) |->
                    ObjectState(IF id \in Range(g.initial_state.inventory)
                                THEN "inventory"
                                ELSE g.objects[LastIndexOfId(g.objects, id,
                                                             Len(g.objects))].location,
                                g.objects[LastIndexOfId(g.objects, id, Len(g.objects))].is_open,
                                g.objects[LastIndexOfId(g.objects, id, Len(g.objects))].locked,
                                g.objects[LastIndexOfId(g.objects, id, Len(g.objects))].is_lit,
                                g.objects[LastIndexOfId(g.objects, id, Len(g.objects))].worn,
                                g.objects[LastIndexOfId(g.objects, id, Len(g.objects))].hidden,
                                FALSE)],
     rooms |-> [id \in RoomIds(g) |-> [visited |-> FALSE]],
     game_over |-> FALSE,
     won |-> FALSE,
     death_message |-> None]

from_game(g) ==
    LET initial == g.initial_state
        objects == [id \in ObjectIds(g) |->
                      LET obj == g.objects[LastIndexOfId(g.objects, id, Len(g.objects))]
                      IN  ObjectState(IF id \in Range(initial.inventory)
                                      THEN "inventory" ELSE obj.location,
                                      obj.is_open, obj.locked, obj.is_lit, obj.worn,
                                      obj.hidden, FALSE)]
        rooms == [id \in RoomIds(g) |-> [visited |-> id = initial.current_room]]
    IN  [current_room |-> initial.current_room,
         inventory |-> initial.inventory,
         turns |-> 0,
         score |-> 0,
         flags |-> initial.flags,
         objects |-> objects,
         rooms |-> rooms,
         game_over |-> FALSE,
         won |-> FALSE,
         death_message |-> None]

(* model_dump() of one ObjectState / RoomState: a plain dict with every    *)
(* field, the "custom" dict (never written by the engine) included.        *)
dump_ObjectState(o) ==
    [location |-> o.location, is_open |-> o.is_open, locked |-> o.locked,
     is_lit |-> o.is_lit, worn |-> o.worn, hidden |-> o.hidden,
     examined |-> o.examined, custom |-> <<>>]

dump_RoomState(r) == [visited |-> r.visited, custom |-> <<>>]

(* GameState.to_save_dict(): self.model_dump() *)
to_save_dict(s) ==
    [current_room |-> s.current_room,
     inventory |-> s.inventory,
     turns |-> s.turns,
     score |-> s.score,
     flags |-> s.flags,
     objects |-> [id \in DOMAIN s.objects |-> dump_ObjectState(s.objects[id])],
     rooms |-> [id \in DOMAIN s.rooms |-> dump_RoomState(s.rooms[id])],
     game_over |-> s.game_over,
     won |-> s.won,
     death_message |-> s.death_message]

(* model_validate of the nested dicts, field by field. *)
validate_ObjectState(d) ==
    ObjectState(d.location, d.is_open, d.locked, d.is_lit, d.worn, d.hidden, d.examined)

validate_RoomState(d) == [visited |-> d.visited]

(* A variant that restores every room with RoomState's default. *)
from_save_dict_rooms_default(data) ==
    [current_room |-> data.current_room,
     inventory |-> data.inventory,
     turns |-> data.turns,
     score |-> data.score,
     flags |-> data.flags,
     objects |-> [id \in DOMAIN data.objects |-> validate_ObjectState(data.objects[id])],
     rooms |-> [id \in DOMAIN data.rooms |-> [visited |-> FALSE]],
     game_over |-> data.game_over,
     won |-> data.won,
     death_message |-> data.death_message]

(* GameState.from_save_dict(data): cls.model_validate(data) *)
from_save_dict(data) ==
    [current_room |-> data.current_room,
     inventory |-> data.inventory,
     turns |-> data.turns,
     score |-> data.score,
     flags |-> data.flags,
     objects |-> [id \in DOMAIN data.objects |-> validate_ObjectState(data.objects[id])],
     rooms |-> [id \in DOMAIN data.rooms |-> validate_RoomState(data.rooms[id])],
     game_over |-> data.game_over,
     won |-> data.won,
     death_message |-> data.death_message]

move_object(s, object_id, new_location) ==
    IF object_id \in DOMAIN s.objects
    THEN [s EXCEPT !.objects[object_id].location = new_location]
    ELSE s

is_in_inventory(s, object_id) == object_id \in Range(s.inventory)

add_to_inventory(s, object_id) ==
    move_object(IF object_id \notin Range(s.inventory)
                THEN [s EXCEPT !.inventory = Append(@, object_id)]
                ELSE s,
                object_id, "inventory")

(* list.remove: drops the first occurrence. *)
RECURSIVE RemoveFirst(_, _)
RemoveFirst(seq, x) ==
    IF seq = <<>> THEN <<>>
    ELSE IF Head(seq) = x THEN Tail(seq)
    ELSE <<Head(seq)>> \o RemoveFirst(Tail(seq), x)

(* A variant that leaves the list as it is. *)
remove_from_inventory_kept(s, object_id) == s

remove_from_inventory(s, object_id) ==
    IF object_id \in Range(s.inventory)
    THEN [s EXCEPT !.inventory = RemoveFirst(@, object_id)]
    ELSE s

set_flag(s, flag_name, value) ==
    [s EXCEPT !.flags = [n \in DOMAIN @ \cup {flag_name} |->
                            IF n = flag_name THEN value ELSE @[n]]]

(* bool(state.get_flag(name)); flag values are booleans in the model. *)
FlagTruthy(s, flag_name) == flag_name \in DOMAIN s.flags /\ s.flags[flag_name] = TRUE

(* A variant that charges two turns. *)
increment_turns_twice(s) == [s EXCEPT !.turns = @ + 2]

increment_turns(s) == [s EXCEPT !.turns = @ + 1]

(* A variant that records every ending as a win. *)
end_game_as_win(s, won) == [s EXCEPT !.game_over = TRUE, !.won = TRUE]

end_game(s, won) == [s EXCEPT !.game_over = TRUE, !.won = won]

(***************************************************************************)
(* parser/resolver.py                                                      *)
(***************************************************************************)

(* [x for x in seq if Keep(x)], for a sequence of object definitions. *)
FilterSeq(seq, Keep(_)) ==
    LET F[i \in 0..Len(seq)] ==
            IF i = 0 THEN <<>>
            ELSE IF Keep(seq[i]) THEN Append(F[i - 1], seq[i]) ELSE F[i - 1]
    IN  F[Len(seq)]

(* A variant that sees through closed lids. *)
IsVisible_through_lids(g, s, obj) ==
    /\ obj.id \in DOMAIN s.objects
    /\ ~s.objects[obj.id].hidden
    /\ LET location == s.objects[obj.id].location
       IN  \/ location \in {s.current_room, "inventory"}
           \/ /\ location \in DOMAIN s.objects
              /\ s.objects[location].location \in {s.current_room, "inventory"}

IsVisible(g, s, obj) ==
    /\ obj.id \in DOMAIN s.objects
    /\ ~s.objects[obj.id].hidden
    /\ LET location == s.objects[obj.id].location
       IN  \/ location = s.current_room
           \/ location = "inventory"
           \/ /\ get_object(g, location).id # None
              /\ location \in DOMAIN s.objects
              /\ s.objects[location].is_open
              /\ s.objects[location].location \in {s.current_room, "inventory"}

get_visible_objects(g, s) ==
    LET Keep(obj) == IsVisible(g, s, obj)
    IN  FilterSeq(g.objects, Keep)

(* "a in b" on strings, for the words and names the model uses: equal, or  *)
(* listed as a proper substring.                                           *)
ProperSubstrings == {
    <<"key", "brass key">>, <<"box", "wooden box">>, <<"coin", "rusty coin">>, <<"coin", "gold coin">>,
    <<"machine", "vending machine">>, <<"altar", "stone altar">>,
    <<"statue", "golden statue">>, <<"rack", "coat rack">>,
    <<"in", "coin">>, <<"in", "rusty coin">>, <<"in", "gold coin">>,
    <<"in", "vending machine">>}

IsSubstring(a, b) == a = b \/ <<a, b>> \in ProperSubstrings

(* A variant that compares the noun only and ignores the adjectives. *)
score_match_noun_only(obj, ref_words) ==
    IF Lower(obj.name) = ref_words[Len(ref_words)] THEN 0 ELSE -1

(* score_match: -1 when no split of ref_words matches, else the largest    *)
(* number of leading adjectives over the splits that match.                *)
score_match(obj, ref_words) ==
    LET obj_adjectives == {Lower(a) : a \in Range(obj.adjectives)}
        scores == {noun_start \in 0..(Len(ref_words) - 1) :
                     /\ Lower(obj.name) =
                            Join(SubSeq(ref_words, noun_start + 1, Len(ref_words)), " ")
                     /\ \A k \in 1..noun_start : ref_words[k] \in obj_adjectives}
    IN  IF scores = {} THEN -1
        ELSE CHOOSE m \in scores : \A n \in scores : n <= m

match_object(reference, objects) ==
    LET words == reference
        id_match(obj) == obj.id = Join(words, "_")
        name_match(obj) == Lower(obj.name) = Join(words, " ")
        scored(obj) == score_match(obj, words) >= 0
        by_id == FilterSeq(objects, id_match)
        exact_matches == FilterSeq(objects, name_match)
        scored_objs == FilterSeq(objects, scored)
        partial_match(obj) ==
            IsSubstring(words[1], Lower(obj.name)) \/ IsSubstring(Lower(obj.name), words[1])
    IN  IF words = <<>> THEN <<>>
        ELSE IF by_id # <<>> THEN <<by_id[1]>>
        ELSE IF exact_matches # <<>> THEN exact_matches
        ELSE IF scored_objs = <<>>
        THEN IF Len(words) = 1 THEN FilterSeq(objects, partial_match) ELSE <<>>
        ELSE LET best_score ==
                     CHOOSE m \in {score_match(scored_objs[i], words) : i \in DOMAIN scored_objs} :
                        \A i \in DOMAIN scored_objs : score_match(scored_objs[i], words) <= m
                 is_best(obj) == score_match(obj, words) = best_score
             IN  FilterSeq(scored_objs, is_best)

ResolvedCommand(verb, direct_id, prep, indirect_id, custom) ==
    [verb |-> verb, direct_object_id |-> direct_id, preposition |-> prep,
     indirect_object_id |-> indirect_id, custom_verb |-> custom]

NoResolved == ResolvedCommand("None", None, None, None, None)

ResolutionOk(resolved) ==
    [success |-> TRUE, resolved |-> resolved, error_type |-> None,
     error_message |-> None, ambiguous_objects |-> <<>>]

not_found(object_ref) ==
    [success |-> FALSE, resolved |-> NoResolved, error_type |-> "NOT_FOUND",
     error_message |-> "You can't see any " \o Join(object_ref, " ") \o " here.",
     ambiguous_objects |-> <<>>]

ambiguous(object_ref, matches) ==
    [success |-> FALSE, resolved |-> NoResolved, error_type |-> "AMBIGUOUS",
     error_message |-> "Which " \o Join(object_ref, " ") \o " do you mean?",
     ambiguous_objects |-> [i \in DOMAIN matches |-> matches[i].name]]

resolve(g, s, command) ==
    LET visible == get_visible_objects(g, s)
        dmatches == match_object(command.direct_object, visible)
        imatches == match_object(command.indirect_object, visible)
        direct_id == IF command.direct_object # <<>> THEN dmatches[1].id ELSE None
        indirect_id == IF command.indirect_object # <<>> THEN imatches[1].id ELSE None
    IN  IF command.direct_object # <<>> /\ dmatches = <<>>
        THEN not_found(command.direct_object)
        ELSE IF command.direct_object # <<>> /\ Len(dmatches) > 1
        THEN ambiguous(command.direct_object, dmatches)
        ELSE IF command.indirect_object # <<>> /\ imatches = <<>>
        THEN not_found(command.indirect_object)
        ELSE IF command.indirect_object # <<>> /\ Len(imatches) > 1
        THEN ambiguous(command.indirect_object, imatches)
        ELSE ResolutionOk(ResolvedCommand(command.verb, direct_id, command.preposition,
                                          indirect_id, command.custom_verb))

(***************************************************************************)
(* engine/actions.py: the condition / effect evaluator                     *)
(***************************************************************************)

(* A condition string is modelled by its tokens: the operators "&&" and    *)
(* "||" (written with a space on either side in the source string) and     *)
(* atoms.  An atom records how many "!" precede it and which shape follows: *)
(* inventory.includes('a'), flags.a, a.b, or the bare flag name a.         *)
AndTok == [kind |-> "&&", neg |-> 0, a |-> "", b |-> ""]
OrTok == [kind |-> "||", neg |-> 0, a |-> "", b |-> ""]
InvAtom(id) == [kind |-> "inventory", neg |-> 0, a |-> id, b |-> ""]
FlagsAtom(name) == [kind |-> "flags", neg |-> 0, a |-> name, b |-> ""]
AttrAtom(obj, attr) == [kind |-> "attr", neg |-> 0, a |-> obj, b |-> attr]
BareAtom(name) == [kind |-> "bare", neg |-> 0, a |-> name, b |-> ""]
Not(atom) == [atom EXCEPT !.neg = @ + 1]

HasTok(cond, tok) == \E i \in DOMAIN cond : cond[i].kind = tok

(* condition.split(" && "): the parts between occurrences of tok. *)
RECURSIVE SplitOn(_, _)
SplitOn(cond, tok) ==
    IF ~HasTok(cond, tok) THEN <<cond>>
    ELSE LET i == CHOOSE j \in DOMAIN cond :
                     cond[j].kind = tok /\ \A k \in 1..(j - 1) : cond[k].kind # tok
         IN  <<SubSeq(cond, 1, i - 1)>> \o SplitOn(SubSeq(cond, i + 1, Len(cond)), tok)

ObjectStateAttrs == {"location", "is_open", "locked", "is_lit", "worn", "hidden", "examined"}

(* bool(getattr(obj_state, attr)) *)
AttrTruthy(obj_state, attr) ==
    IF attr = "location" THEN obj_state.location # "" ELSE obj_state[attr] = TRUE

EvalAtom(atom, s) ==
    LET base == CASE atom.kind = "inventory" -> is_in_inventory(s, atom.a)
                  [] atom.kind = "flags" -> FlagTruthy(s, atom.a)
                  [] atom.kind = "attr" ->
                        /\ atom.a \in DOMAIN s.objects
                        /\ atom.b \in ObjectStateAttrs
                        /\ AttrTruthy(s.objects[atom.a], atom.b)
                  [] atom.kind = "bare" -> FlagTruthy(s, atom.a)
                  [] OTHER -> FALSE
    IN  IF atom.neg % 2 = 0 THEN base ELSE ~base

RECURSIVE evaluate_condition(_, _)

(* A variant that splits on " || " before " && ". *)
evaluate_condition_or_first(condition, s) ==
    IF HasTok(condition, "||")
    THEN LET parts == SplitOn(condition, "||")
         IN  \E i \in DOMAIN parts : evaluate_condition(parts[i], s)
    ELSE IF HasTok(condition, "&&")
    THEN LET parts == SplitOn(condition, "&&")
         IN  \A i \in DOMAIN parts : evaluate_condition(parts[i], s)
    ELSE IF condition = <<>> THEN FlagTruthy(s, "")
    ELSE EvalAtom(condition[1], s)

evaluate_condition(condition, s) ==
    IF HasTok(condition, "&&")
    THEN LET parts == SplitOn(condition, "&&")
         IN  \A i \in DOMAIN parts : evaluate_condition(parts[i], s)
    ELSE IF HasTok(condition, "||")
    THEN LET parts == SplitOn(condition, "||")
         IN  \E i \in DOMAIN parts : evaluate_condition(parts[i], s)
    ELSE IF condition = <<>> THEN FlagTruthy(s, "")
    ELSE EvalAtom(condition[1], s)

(* One state_changes entry: target "" for a key without a ".". *)
Change(target, attr, value) == [target |-> target, attr |-> attr, value |-> value]

ApplyChange(s, ch) ==
    IF ch.target = "" THEN set_flag(s, ch.attr, ch.value)
    ELSE IF ch.target = "flags" THEN set_flag(s, ch.attr, ch.value)
    ELSE IF ch.target \in DOMAIN s.objects /\ ch.attr \in ObjectStateAttrs
    THEN [s EXCEPT !.objects[ch.target][ch.attr] = ch.value]
    ELSE s

RECURSIVE ApplyChanges(_, _)
ApplyChanges(s, changes) ==
    IF changes = <<>> THEN s
    ELSE ApplyChanges(ApplyChange(s, Head(changes)), Tail(changes))

RevealObject(s, action) ==
    IF Truthy(action.reveals_object) /\ action.reveals_object \in DOMAIN s.objects
    THEN [s EXCEPT !.objects[action.reveals_object].hidden = FALSE]
    ELSE s

(* A variant that takes the player off the map. *)
MovePlayer_off_the_map(s, action) ==
    IF Truthy(action.moves_player)
    THEN [s EXCEPT !.current_room = "nowhere"]
    ELSE s

MovePlayer(s, action) ==
    IF Truthy(action.moves_player)
    THEN [s EXCEPT !.current_room = action.moves_player]
    ELSE s

ActionResult(s, message, success) ==
    [found |-> TRUE, state |-> s, message |-> message, success |-> success]

(* "return None": no custom action under that key. *)
NoAction(s) == [found |-> FALSE, state |-> s, message |-> None, success |-> FALSE]

(* _apply_action_effects: consumes_object is a stub here ("pass"). *)
apply_action_effects(action, s) ==
    ActionResult(MovePlayer(RevealObject(ApplyChanges(s, action.state_changes), action),
                            action),
                 action.message, TRUE)

(* _get_custom_action: the message, or None; no effect is applied. *)
get_custom_action(obj, action_key, s) ==
    IF action_key \notin DOMAIN obj.actions THEN None
    ELSE LET action == obj.actions[action_key]
         IN  IF action.is_str THEN action.message
             ELSE IF action.condition # <<>> /\ ~evaluate_condition(action.condition, s)
             THEN action.fail_message
             ELSE action.message

ConsumeObject(s, obj, action) ==
    IF action.consumes_object
    THEN move_object(remove_from_inventory(s, obj.id), obj.id, "nowhere")
    ELSE s

execute_custom_action(obj, action_key, s) ==
    IF action_key \notin DOMAIN obj.actions THEN NoAction(s)
    ELSE LET action == obj.actions[action_key]
         IN  IF action.is_str THEN ActionResult(s, action.message, TRUE)
             ELSE IF action.condition # <<>> /\ ~evaluate_condition(action.condition, s)
             THEN ActionResult(s, IF Truthy(action.fail_message)
                                  THEN action.fail_message ELSE "Nothing happens.",
                               FALSE)
             ELSE ActionResult(
                      MovePlayer(
                          ConsumeObject(
                              RevealObject(ApplyChanges(s, action.state_changes), action),
                              obj, action),
                          action),
                      action.message, TRUE)

(***************************************************************************)
(* engine/actions.py: the verb handlers                                    *)
(***************************************************************************)

Fail(s, message) == ActionResult(s, message, FALSE)

CantSee(s) == Fail(s, "You can't see that here.")

handle_take(command, g, s) ==
    IF command.direct_object_id = None THEN Fail(s, "Take what?")
    ELSE
    LET id == command.direct_object_id
        obj == get_object(g, id)
    IN  IF obj.id = None THEN CantSee(s)
        ELSE IF id \notin DOMAIN s.objects THEN CantSee(s)
        ELSE
        LET obj_state == s.objects[id]
            container_id == obj_state.location
            container == get_object(g, container_id)
        IN  IF obj_state.location = "inventory" THEN Fail(s, "You already have that.")
            ELSE IF ~obj.takeable THEN Fail(s, "You can't take the " \o obj.name \o ".")
            ELSE IF /\ container.id # None
                    /\ container.container
                    /\ container_id \in DOMAIN s.objects
                    /\ ~s.objects[container_id].is_open
            THEN Fail(s, "The " \o container.name \o " is closed.")
            ELSE ActionResult(add_to_inventory(s, id), "Taken.", TRUE)

handle_drop(command, g, s) ==
    IF command.direct_object_id = None THEN Fail(s, "Drop what?")
    ELSE
    LET id == command.direct_object_id
        obj == get_object(g, id)
    IN  IF obj.id = None THEN CantSee(s)
        ELSE IF ~is_in_inventory(s, id) THEN Fail(s, "You're not carrying that.")
        ELSE IF ~obj.droppable THEN Fail(s, "You can't drop the " \o obj.name \o ".")
        ELSE ActionResult(move_object(remove_from_inventory(s, id), id, s.current_room),
                          "Dropped.", TRUE)

(* _get_container_contents: names of the objects located in the container  *)
(* and not hidden, in state.objects order, joined by ", ".                 *)
get_container_contents(container_id, g, s) ==
    LET inside(obj) == /\ obj.id \in DOMAIN s.objects
                       /\ s.objects[obj.id].location = container_id
                       /\ ~s.objects[obj.id].hidden
        items == FilterSeq(g.objects, inside)
    IN  Join([i \in DOMAIN items |-> items[i].name], ", ")

handle_examine(command, g, s) ==
    IF command.direct_object_id = None THEN Fail(s, "Examine what?")
    ELSE
    LET id == command.direct_object_id
        obj == get_object(g, id)
    IN  IF obj.id = None THEN CantSee(s)
        ELSE
        LET s1 == IF id \in DOMAIN s.objects
                  THEN [s EXCEPT !.objects[id].examined = TRUE] ELSE s
            custom_msg == get_custom_action(obj, "examine", s1)
            text == IF Truthy(obj.examine_text) THEN obj.examine_text ELSE obj.description
            contents == get_container_contents(id, g, s1)
        IN  IF Truthy(custom_msg) THEN ActionResult(s1, custom_msg, TRUE)
            ELSE IF obj.container /\ id \in DOMAIN s1.objects /\ s1.objects[id].is_open
            THEN IF contents # ""
                 THEN ActionResult(s1, text \o "\n\nInside the " \o obj.name
                                          \o " you see: " \o contents, TRUE)
                 ELSE ActionResult(s1, text \o "\n\nThe " \o obj.name \o " is empty.", TRUE)
            ELSE ActionResult(s1, text, TRUE)

handle_read(command, g, s) ==
    IF command.direct_object_id = None THEN Fail(s, "Read what?")
    ELSE
    LET obj == get_object(g, command.direct_object_id)
    IN  IF obj.id = None THEN CantSee(s)
        ELSE IF ~obj.readable
        THEN Fail(s, "There's nothing to read on the " \o obj.name \o ".")
        ELSE ActionResult(s, IF Truthy(obj.read_text) THEN obj.read_text ELSE "It's blank.",
                          TRUE)

(* A variant that reports success and opens nothing. *)
handle_open_stuck(command, g, s) == ActionResult(s, "Opened.", TRUE)

handle_open(command, g, s) ==
    IF command.direct_object_id = None THEN Fail(s, "Open what?")
    ELSE
    LET id == command.direct_object_id
        obj == get_object(g, id)
    IN  IF obj.id = None THEN CantSee(s)
        ELSE IF id \notin DOMAIN s.objects THEN CantSee(s)
        ELSE IF ~obj.openable THEN Fail(s, "You can't open the " \o obj.name \o ".")
        ELSE IF s.objects[id].is_open THEN Fail(s, "It's already open.")
        ELSE IF s.objects[id].locked THEN Fail(s, "It's locked.")
        ELSE
        LET s1 == [s EXCEPT !.objects[id].is_open = TRUE]
            contents == get_container_contents(id, g, s1)
        IN  IF obj.container /\ contents # ""
            THEN ActionResult(s1, "Opened. Inside you see: " \o contents, TRUE)
            ELSE ActionResult(s1, "Opened.", TRUE)

handle_close(command, g, s) ==
    IF command.direct_object_id = None THEN Fail(s, "Close what?")
    ELSE
    LET id == command.direct_object_id
        obj == get_object(g, id)
    IN  IF obj.id = None THEN CantSee(s)
        ELSE IF id \notin DOMAIN s.objects THEN CantSee(s)
        ELSE IF ~obj.openable THEN Fail(s, "You can't close the " \o obj.name \o ".")
        ELSE IF ~s.objects[id].is_open THEN Fail(s, "It's already closed.")
        ELSE ActionResult([s EXCEPT !.objects[id].is_open = FALSE], "Closed.", TRUE)

(* A variant that puts things into closed containers too. *)
handle_put_into_closed(command, g, s) ==
    IF command.direct_object_id = None THEN Fail(s, "Put what?")
    ELSE IF command.indirect_object_id = None THEN Fail(s, "Put it where?")
    ELSE
    LET id == command.direct_object_id
        cid == command.indirect_object_id
        obj == get_object(g, id)
        container == get_object(g, cid)
    IN  IF obj.id = None THEN CantSee(s)
        ELSE IF container.id = None THEN CantSee(s)
        ELSE IF ~is_in_inventory(s, id)
        THEN Fail(s, "You're not holding the " \o obj.name \o ".")
        ELSE IF command.preposition = "IN" /\ ~container.container
        THEN Fail(s, "You can't put things in the " \o container.name \o ".")
        ELSE ActionResult(move_object(remove_from_inventory(s, id), id, cid), "Done.", TRUE)

handle_put(command, g, s) ==
    IF command.direct_object_id = None THEN Fail(s, "Put what?")
    ELSE IF command.indirect_object_id = None THEN Fail(s, "Put it where?")
    ELSE
    LET id == command.direct_object_id
        cid == command.indirect_object_id
        obj == get_object(g, id)
        container == get_object(g, cid)
    IN  IF obj.id = None THEN CantSee(s)
        ELSE IF container.id = None THEN CantSee(s)
        ELSE IF ~is_in_inventory(s, id)
        THEN Fail(s, "You're not holding the " \o obj.name \o ".")
        ELSE IF command.preposition = "IN" /\ ~container.container
        THEN Fail(s, "You can't put things in the " \o container.name \o ".")
        ELSE IF /\ command.preposition = "IN"
                /\ cid \in DOMAIN s.objects
                /\ ~s.objects[cid].is_open
        THEN Fail(s, "The " \o container.name \o " is closed.")
        ELSE ActionResult(move_object(remove_from_inventory(s, id), id, cid), "Done.", TRUE)

handle_give(command, g, s) ==
    IF command.direct_object_id = None THEN Fail(s, "Give what?")
    ELSE IF command.indirect_object_id = None THEN Fail(s, "Give it to whom?")
    ELSE
    LET id == command.direct_object_id
        obj == get_object(g, id)
        recipient == get_object(g, command.indirect_object_id)
        custom_msg == get_custom_action(obj, "give:" \o command.indirect_object_id, s)
    IN  IF obj.id = None THEN CantSee(s)
        ELSE IF recipient.id = None THEN CantSee(s)
        ELSE IF ~is_in_inventory(s, id)
        THEN Fail(s, "You're not holding the " \o obj.name \o ".")
        ELSE IF Truthy(custom_msg)
        THEN ActionResult(remove_from_inventory(s, id), custom_msg, TRUE)
        ELSE Fail(s, "The " \o recipient.name \o " doesn't seem interested.")

(* A variant that locks an object whether it is open or closed. *)
handle_lock_while_open(command, g, s) ==
    IF command.direct_object_id = None THEN Fail(s, "Lock what?")
    ELSE IF command.indirect_object_id = None THEN Fail(s, "Lock it with what?")
    ELSE
    LET id == command.direct_object_id
        obj == get_object(g, id)
        key == get_object(g, command.indirect_object_id)
    IN  IF obj.id = None \/ key.id = None THEN CantSee(s)
        ELSE IF id \notin DOMAIN s.objects THEN CantSee(s)
        ELSE IF ~obj.lockable THEN Fail(s, "You can't lock the " \o obj.name \o ".")
        ELSE IF s.objects[id].locked THEN Fail(s, "It's already locked.")
        ELSE IF obj.key_object # command.indirect_object_id
        THEN Fail(s, "The " \o key.name \o " doesn't fit.")
        ELSE ActionResult([s EXCEPT !.objects[id].locked = TRUE], "Locked.", TRUE)

handle_lock(command, g, s) ==
    IF command.direct_object_id = None THEN Fail(s, "Lock what?")
    ELSE IF command.indirect_object_id = None THEN Fail(s, "Lock it with what?")
    ELSE
    LET id == command.direct_object_id
        obj == get_object(g, id)
        key == get_object(g, command.indirect_object_id)
    IN  IF obj.id = None \/ key.id = None THEN CantSee(s)
        ELSE IF id \notin DOMAIN s.objects THEN CantSee(s)
        ELSE IF ~obj.lockable THEN Fail(s, "You can't lock the " \o obj.name \o ".")
        ELSE IF s.objects[id].locked THEN Fail(s, "It's already locked.")
        ELSE IF s.objects[id].is_open THEN Fail(s, "You'll need to close it first.")
        ELSE IF obj.key_object # command.indirect_object_id
        THEN Fail(s, "The " \o key.name \o " doesn't fit.")
        ELSE ActionResult([s EXCEPT !.objects[id].locked = TRUE], "Locked.", TRUE)

handle_unlock(command, g, s) ==
    IF command.direct_object_id = None THEN Fail(s, "Unlock what?")
    ELSE IF command.indirect_object_id = None THEN Fail(s, "Unlock it with what?")
    ELSE
    LET id == command.direct_object_id
        obj == get_object(g, id)
        key == get_object(g, command.indirect_object_id)
    IN  IF obj.id = None \/ key.id = None THEN CantSee(s)
        ELSE IF id \notin DOMAIN s.objects THEN CantSee(s)
        ELSE IF ~obj.lockable THEN Fail(s, "You can't unlock the " \o obj.name \o ".")
        ELSE IF ~s.objects[id].locked THEN Fail(s, "It's not locked.")
        ELSE IF obj.key_object # command.indirect_object_id
        THEN Fail(s, "The " \o key.name \o " doesn't fit.")
        ELSE ActionResult([s EXCEPT !.objects[id].locked = FALSE], "Unlocked.", TRUE)

handle_use(command, g, s) ==
    IF command.direct_object_id = None THEN Fail(s, "Use what?")
    ELSE
    LET obj == get_object(g, command.direct_object_id)
    IN  IF obj.id = None THEN CantSee(s)
        ELSE IF command.indirect_object_id # None
        THEN LET r == execute_custom_action(
                          obj, "use_with:" \o command.indirect_object_id, s)
                 target == get_object(g, command.indirect_object_id)
                 target_name == IF target.id # None THEN target.name ELSE "that"
             IN  IF r.found THEN r
                 ELSE Fail(s, "You can't use the " \o obj.name \o " with the "
                                \o target_name \o ".")
        ELSE LET r == execute_custom_action(obj, "use", s)
             IN  IF r.found THEN r
                 ELSE Fail(s, "You're not sure how to use the " \o obj.name \o ".")

handle_talk(command, g, s) ==
    IF command.direct_object_id = None THEN Fail(s, "Talk to whom?")
    ELSE
    LET obj == get_object(g, command.direct_object_id)
        r == execute_custom_action(obj, "talk", s)
    IN  IF obj.id = None THEN CantSee(s)
        ELSE IF r.found THEN r
        ELSE Fail(s, "The " \o obj.name \o " doesn't respond.")

(* for obj_id in current_room.objects: the first object of the room's      *)
(* static object list that defines action_key runs it.                     *)
RECURSIVE FirstRoomAction(_, _, _, _)
FirstRoomAction(ids, action_key, g, s) ==
    IF ids = <<>> THEN NoAction(s)
    ELSE LET room_obj == get_object(g, Head(ids))
             r == execute_custom_action(room_obj, action_key, s)
         IN  IF room_obj.id # None /\ r.found THEN r
             ELSE FirstRoomAction(Tail(ids), action_key, g, s)

RoomObjects(g, s) ==
    LET current_room == get_room(g, s.current_room)
    IN  IF current_room.id = None THEN <<>> ELSE current_room.objects

handle_show(command, g, s) ==
    IF command.direct_object_id = None THEN Fail(s, "Show what?")
    ELSE
    LET id == command.direct_object_id
        obj == get_object(g, id)
    IN  IF obj.id = None THEN CantSee(s)
        ELSE IF ~is_in_inventory(s, id)
        THEN Fail(s, "You're not holding the " \o obj.name \o ".")
        ELSE IF command.indirect_object_id # None
        THEN LET recipient == get_object(g, command.indirect_object_id)
                 r1 == execute_custom_action(recipient, "show:" \o id, s)
                 r2 == execute_custom_action(recipient, "show", s)
             IN  IF recipient.id = None THEN CantSee(s)
                 ELSE IF r1.found THEN r1
                 ELSE IF r2.found THEN r2
                 ELSE Fail(s, "The " \o recipient.name \o " doesn't seem interested.")
        ELSE LET r == FirstRoomAction(RoomObjects(g, s), "show", g, s)
             IN  IF r.found THEN r
                 ELSE Fail(s, "You wave it around but nothing happens.")

handle_sing(command, g, s) ==
    LET r == FirstRoomAction(RoomObjects(g, s), "sing", g, s)
        obj == get_object(g, command.direct_object_id)
        r2 == execute_custom_action(obj, "sing", s)
    IN  IF r.found THEN r
        ELSE IF command.direct_object_id # None /\ obj.id # None /\ r2.found THEN r2
        ELSE ActionResult(s, "You sing a little tune. Nothing happens.", TRUE)

(* "talk" in part / "inventory.includes" in part, on a tokenised part. *)
MentionsTalk(part) ==
    \E i \in DOMAIN part : \/ IsSubstring("talk", part[i].a)
                           \/ IsSubstring("talk", part[i].b)

MentionsInventory(part) == \E i \in DOMAIN part : part[i].kind = "inventory"

FirstInventoryItem(part) ==
    part[CHOOSE i \in DOMAIN part :
            part[i].kind = "inventory" /\ \A k \in 1..(i - 1) : part[k].kind # "inventory"].a

(* required_item.replace("_", " ") for the ids the model uses. *)
SpacedIds == ("brass_key" :> "brass key") @@ ("rusty_coin" :> "rusty coin")

Spaced(id) == IF id \in DOMAIN SpacedIds THEN SpacedIds[id] ELSE id

PartHint(part, target) ==
    IF MentionsTalk(part) THEN "talk to the " \o target.name
    ELSE IF MentionsInventory(part) THEN "have the " \o Spaced(FirstInventoryItem(part))
    ELSE "do something else"

generate_condition_hint(condition, target, s) ==
    LET parts == SplitOn(condition, "&&")
        failing(part) == ~evaluate_condition(part, s)
        failed_parts == IF HasTok(condition, "&&") THEN FilterSeq(parts, failing)
                        ELSE <<condition>>
        hints == [i \in DOMAIN failed_parts |-> PartHint(failed_parts[i], target)]
    IN  IF (HasTok(condition, "&&") \/ HasTok(condition, "||")) /\ hints # <<>>
        THEN "You might need to " \o Join(hints, " and ") \o " first."
        ELSE IF MentionsTalk(condition) /\ ~evaluate_condition(condition, s)
        THEN "Maybe you should try talking to the " \o target.name \o " first."
        ELSE IF /\ MentionsInventory(condition)
                /\ ~is_in_inventory(s, FirstInventoryItem(condition))
        THEN "You need the " \o Spaced(FirstInventoryItem(condition)) \o " first."
        ELSE "The " \o target.name \o " doesn't respond. Maybe you're missing something."

(* _execute_custom_action_with_hint, for one key of the target. *)
HintedAction(target, key, s) ==
    LET action == target.actions[key]
    IN  IF action.is_str THEN ActionResult(s, action.message, TRUE)
        ELSE IF action.condition # <<>>
        THEN IF evaluate_condition(action.condition, s)
             THEN apply_action_effects(action, s)
             ELSE IF Truthy(action.fail_message)
             THEN ActionResult(s, action.fail_message, FALSE)
             ELSE ActionResult(s, generate_condition_hint(action.condition, target, s),
                               FALSE)
        ELSE apply_action_effects(action, s)

execute_custom_action_with_hint(target, action_key, fallback_action_key, s) ==
    IF action_key \in DOMAIN target.actions THEN HintedAction(target, action_key, s)
    ELSE IF fallback_action_key \in DOMAIN target.actions
    THEN HintedAction(target, fallback_action_key, s)
    ELSE NoAction(s)

RECURSIVE FirstRoomInsert(_, _, _, _)
FirstRoomInsert(ids, action_key, g, s) ==
    IF ids = <<>> THEN NoAction(s)
    ELSE LET target == get_object(g, Head(ids))
             r == execute_custom_action_with_hint(target, action_key, "insert", s)
         IN  IF target.id # None /\ r.found THEN r
             ELSE FirstRoomInsert(Tail(ids), action_key, g, s)

handle_insert(command, g, s) ==
    IF command.direct_object_id = None THEN Fail(s, "Insert what?")
    ELSE
    LET id == command.direct_object_id
        obj == get_object(g, id)
    IN  IF obj.id = None THEN CantSee(s)
        ELSE IF ~is_in_inventory(s, id)
        THEN Fail(s, "You're not holding the " \o obj.name \o ".")
        ELSE IF command.indirect_object_id # None
        THEN LET target == get_object(g, command.indirect_object_id)
                 r == execute_custom_action_with_hint(target, "insert:" \o id, "insert", s)
             IN  IF target.id = None THEN CantSee(s)
                 ELSE IF r.found THEN r
                 ELSE Fail(s, "You can't insert the " \o obj.name \o " into the "
                                \o target.name \o ".")
        ELSE LET r == FirstRoomInsert(RoomObjects(g, s), "insert:" \o id, g, s)
             IN  IF r.found THEN r
                 ELSE Fail(s, "You're not sure where to insert the " \o obj.name \o ".")

(* execute_action: the handlers table; any other verb, CUSTOM and LOOK     *)
(* with an object included, has no handler.                                *)
execute_action(command, g, s) ==
    CASE command.verb = "TAKE" -> handle_take(command, g, s)
      [] command.verb = "DROP" -> handle_drop(command, g, s)
      [] command.verb = "EXAMINE" -> handle_examine(command, g, s)
      [] command.verb = "READ" -> handle_read(command, g, s)
      [] command.verb = "OPEN" -> handle_open(command, g, s)
      [] command.verb = "CLOSE" -> handle_close(command, g, s)
      [] command.verb = "PUT" -> handle_put(command, g, s)
      [] command.verb = "GIVE" -> handle_give(command, g, s)
      [] command.verb = "LOCK" -> handle_lock(command, g, s)
      [] command.verb = "UNLOCK" -> handle_unlock(command, g, s)
      [] command.verb = "USE" -> handle_use(command, g, s)
      [] command.verb = "TALK" -> handle_talk(command, g, s)
      [] command.verb = "SHOW" -> handle_show(command, g, s)
      [] command.verb = "SING" -> handle_sing(command, g, s)
      [] command.verb = "INSERT" -> handle_insert(command, g, s)
      [] OTHER -> Fail(s, "I don't know how to do that.")

(***************************************************************************)
(* engine/engine.py                                                        *)
(***************************************************************************)

TurnResult(message, game_over, won, error) ==
    [message |-> message, game_over |-> game_over, won |-> won, error |-> error,
     raised |-> FALSE]

(* What one call leaves behind: the state, the value returned, the branch  *)
(* of process_input that returned it, and the parsed command.              *)
Step(s, res, path, command) ==
    [state |-> s, result |-> res, path |-> path, command |-> command]

(* state.get_visible_objects_at followed by the "not obj.scenery" filter. *)
ListedObjects(g, s, room_id) ==
    LET listed(obj) == /\ obj.id \in DOMAIN s.objects
                       /\ s.objects[obj.id].location = room_id
                       /\ ~s.objects[obj.id].hidden
                       /\ ~obj.scenery
    IN  FilterSeq(g.objects, listed)

describe_exits(room) ==
    LET shown(e) == ~(~e.exit.is_str /\ e.exit.hidden)
        visible_exits == FilterSeq(room.exits, shown)
        names == [i \in DOMAIN visible_exits |-> visible_exits[i].direction]
        n == Len(names)
    IN  IF n = 0 THEN "There are no obvious exits."
        ELSE IF n = 1 THEN "There is an exit to the " \o names[1] \o "."
        ELSE "There are exits to the " \o Join(SubSeq(names, 1, n - 1), ", ")
             \o " and " \o names[n] \o "."

(* A variant that never shows the first-visit text. *)
describe_current_room_plain(g, s) ==
    LET room_id == s.current_room
        room == get_room(g, room_id)
        s1 == IF room_id \in DOMAIN s.rooms
              THEN [s EXCEPT !.rooms[room_id].visited = TRUE] ELSE s
        objs == ListedObjects(g, s1, room_id)
        lines == <<"**" \o room.name \o "**", "", room.description>>
                 \o (IF objs # <<>>
                     THEN <<"">> \o [i \in DOMAIN objs |->
                                       "There is a " \o objs[i].name \o " here."]
                     ELSE <<>>)
                 \o <<"", describe_exits(room)>>
    IN  IF room.id = None THEN [state |-> s, message |-> "You are nowhere."]
        ELSE [state |-> s1, message |-> Join(lines, "\n")]

(* A variant that charges a turn for a description. *)
describe_current_room_counted(g, s) ==
    [state |-> increment_turns(describe_current_room_plain(g, s).state),
     message |-> describe_current_room_plain(g, s).message]

(* describe_current_room: the text, and the state with the room visited. *)
describe_current_room(g, s) ==
    LET room_id == s.current_room
        room == get_room(g, room_id)
        has_state == room_id \in DOMAIN s.rooms
        first_visit == has_state /\ ~s.rooms[room_id].visited
        s1 == IF has_state THEN [s EXCEPT !.rooms[room_id].visited = TRUE] ELSE s
        text == IF first_visit /\ Truthy(room.first_visit_description)
                THEN room.first_visit_description ELSE room.description
        objs == ListedObjects(g, s1, room_id)
        obj_lines == [i \in DOMAIN objs |-> "There is a " \o objs[i].name \o " here."]
        lines == <<"**" \o room.name \o "**", "", text>>
                 \o (IF objs # <<>> THEN <<"">> \o obj_lines ELSE <<>>)
                 \o <<"", describe_exits(room)>>
    IN  IF room.id = None THEN [state |-> s, message |-> "You are nowhere."]
        ELSE [state |-> s1, message |-> Join(lines, "\n")]

direction_map ==
    ("NORTH" :> "north") @@ ("SOUTH" :> "south") @@ ("EAST" :> "east") @@
    ("WEST" :> "west") @@ ("UP" :> "up") @@ ("DOWN" :> "down") @@
    ("IN" :> "in") @@ ("OUT" :> "out")

(* A variant that ignores the lock of an Exit record. *)
IsLockedExit_ignored(exit_info) == FALSE

(* "isinstance(exit_info, str)" is false and exit_info.locked is set. *)
IsLockedExit(exit_info) == ~exit_info.is_str /\ exit_info.locked

(* A variant in which a locked exit lets through a player who carries      *)
(* something.                                                              *)
handle_movement_carrying(direction_verb, g, s) ==
    LET direction == direction_map[direction_verb]
        room == get_room(g, s.current_room)
        exit_info == ExitOf(room, direction)
        moved == describe_current_room(g, [s EXCEPT !.current_room = exit_info.target])
    IN  IF room.id = None
        THEN [state |-> s, result |-> TurnResult("You are nowhere.", FALSE, FALSE, TRUE)]
        ELSE IF ~HasExit(room, direction)
        THEN [state |-> s,
              result |-> TurnResult("You can't go " \o direction \o " from here.",
                                    FALSE, FALSE, TRUE)]
        ELSE IF IsLockedExit(exit_info) /\ s.inventory = <<>>
        THEN [state |-> s, result |-> TurnResult(exit_info.lock_message, FALSE, FALSE, TRUE)]
        ELSE [state |-> moved.state,
              result |-> TurnResult(moved.message, FALSE, FALSE, FALSE)]

(* _handle_movement: the state after it and the TurnResult it returns. *)
handle_movement(direction_verb, g, s) ==
    LET direction == direction_map[direction_verb]
        room == get_room(g, s.current_room)
        exit_info == ExitOf(room, direction)
        moved == describe_current_room(g, [s EXCEPT !.current_room = exit_info.target])
    IN  IF room.id = None
        THEN [state |-> s, result |-> TurnResult("You are nowhere.", FALSE, FALSE, TRUE)]
        ELSE IF ~HasExit(room, direction)
        THEN [state |-> s,
              result |-> TurnResult("You can't go " \o direction \o " from here.",
                                    FALSE, FALSE, TRUE)]
        ELSE IF IsLockedExit(exit_info)
        THEN [state |-> s, result |-> TurnResult(exit_info.lock_message, FALSE, FALSE, TRUE)]
        ELSE [state |-> moved.state,
              result |-> TurnResult(moved.message, FALSE, FALSE, FALSE)]

describe_inventory(g, s) ==
    LET known(id) == get_object(g, id).id # None
        held == FilterSeq(s.inventory, known)
        lines == <<"You are carrying:">>
                 \o [i \in DOMAIN held |-> "  - " \o get_object(g, held[i]).name]
    IN  IF s.inventory = <<>> THEN "You are empty-handed." ELSE Join(lines, "\n")

RECURSIVE evaluate_win_condition(_, _)

(* A variant without the empty-list tests: all() of no children is true. *)
evaluate_win_condition_vacuous(condition, s) ==
    CASE condition.type = "reach_room" -> s.current_room = condition.room
      [] condition.type = "have_object" ->
            Truthy(condition.object) /\ condition.object \in Range(s.inventory)
      [] condition.type = "flag_set" ->
            Truthy(condition.flag) /\ FlagTruthy(s, condition.flag)
      [] condition.type = "all_of" ->
            \A i \in DOMAIN condition.conditions :
               evaluate_win_condition(condition.conditions[i], s)
      [] condition.type = "any_of" ->
            \E i \in DOMAIN condition.conditions :
               evaluate_win_condition(condition.conditions[i], s)
      [] OTHER -> FALSE

evaluate_win_condition(condition, s) ==
    CASE condition.type = "reach_room" -> s.current_room = condition.room
      [] condition.type = "have_object" ->
            Truthy(condition.object) /\ condition.object \in Range(s.inventory)
      [] condition.type = "flag_set" ->
            Truthy(condition.flag) /\ FlagTruthy(s, condition.flag)
      [] condition.type = "all_of" ->
            /\ condition.conditions # <<>>
            /\ \A i \in DOMAIN condition.conditions :
                  evaluate_win_condition(condition.conditions[i], s)
      [] condition.type = "any_of" ->
            /\ condition.conditions # <<>>
            /\ \E i \in DOMAIN condition.conditions :
                  evaluate_win_condition(condition.conditions[i], s)
      [] OTHER -> FALSE

(* A variant that never ends the session. *)
check_win_condition_skipped(g, s) == [state |-> s, win_msg |-> None]

(* _check_win_condition: the state after it and the win message or None. *)
check_win_condition(g, s) ==
    IF evaluate_win_condition(g.win_condition, s)
    THEN [state |-> end_game(s, TRUE), win_msg |-> g.win_condition.win_message]
    ELSE [state |-> s, win_msg |-> None]

get_help_text == "**Available Commands**"

(* A variant that forgets the victory. *)
EndedTurn_lost(s) ==
    Step(s, TurnResult("The game is over.", TRUE, FALSE, FALSE), "ended", NoCommand)

(* process_input, lines 141-153: the session has already ended. *)
EndedTurn(s) ==
    IF s.won
    THEN Step(s, TurnResult("The game is over. You won!", TRUE, TRUE, FALSE),
              "ended", NoCommand)
    ELSE Step(s, TurnResult(IF Truthy(s.death_message) THEN s.death_message
                            ELSE "The game is over.", TRUE, FALSE, FALSE),
              "ended", NoCommand)

(* A variant that charges a turn for input that does not parse. *)
ParseErrorTurn_counted(s, parse_result) ==
    Step(increment_turns(s), TurnResult(parse_result.message, FALSE, FALSE, TRUE),
         "parse_error", NoCommand)

(* process_input, lines 155-161: the parser returned no command. *)
ParseErrorTurn(s, parse_result) ==
    Step(s, TurnResult(parse_result.message, FALSE, FALSE, TRUE), "parse_error", NoCommand)

(* An exception leaves process_input; no TurnResult is returned. *)
RaisedTurn(s, what) ==
    Step(s, [TurnResult(what, FALSE, FALSE, TRUE) EXCEPT !.raised = TRUE], "raised",
         NoCommand)

(* process_input, line 186 *)
Looked(command, d) ==
    Step(d.state, TurnResult(d.message, FALSE, FALSE, FALSE), "look", command)

(* process_input, lines 166-195: the commands handled without the resolver. *)
MetaTurn(g, s, command) ==
    CASE command.verb = "QUIT" ->
            Step(end_game(s, FALSE), TurnResult("Thanks for playing!", TRUE, FALSE, FALSE),
                 "quit", command)
      [] command.verb = "HELP" ->
            Step(s, TurnResult(get_help_text, FALSE, FALSE, FALSE), "help", command)
      [] command.verb = "SAVE" ->
            Step(s, TurnResult("Save functionality not yet implemented.",
                               FALSE, FALSE, FALSE), "save", command)
      [] command.verb = "LOAD" ->
            Step(s, TurnResult("Load functionality not yet implemented.",
                               FALSE, FALSE, FALSE), "load", command)
      [] command.verb = "LOOK" ->
            Looked(command, describe_current_room(g, s))
      [] command.verb = "INVENTORY" ->
            Step(s, TurnResult(describe_inventory(g, s), FALSE, FALSE, FALSE),
                 "inventory", command)
      [] command.verb = "WAIT" ->
            Step(increment_turns(s), TurnResult("Time passes.", FALSE, FALSE, FALSE),
                 "wait", command)

IsMeta(command) ==
    \/ command.verb \in {"QUIT", "HELP", "SAVE", "LOAD", "INVENTORY", "WAIT"}
    \/ command.verb = "LOOK" /\ command.direct_object = <<>>

(* process_input, lines 200-202: the resolver's answer names an object    *)
(* that defines a custom "enter" action.                                   *)
NamesEnterable(g, resolved) ==
    /\ resolved.success
    /\ Truthy(resolved.resolved.direct_object_id)
    /\ \E obj \in {get_object(g, resolved.resolved.direct_object_id)} :
          obj.id # None /\ "enter" \in DOMAIN obj.actions

(* A variant without the ENTER special case. *)
HasEnterAction_never(g, s, command) == FALSE

(* process_input, lines 198-202 *)
HasEnterAction(g, s, command) ==
    /\ command.verb = "IN"
    /\ command.direct_object # <<>>
    /\ NamesEnterable(g, resolve(g, s, command))

(* A turn that ran an action: the turn counter is incremented and the win  *)
(* condition checked (lines 207-219 and 261-275).                          *)
CountedTurn(command, path, action_result, win) ==
    IF Truthy(win.win_msg)
    THEN Step(win.state,
              TurnResult(action_result.message \o "\n\n" \o win.win_msg, TRUE, TRUE, FALSE),
              path, command)
    ELSE Step(win.state,
              TurnResult(action_result.message, FALSE, FALSE, ~action_result.success),
              path, command)

(* process_input, lines 206-219: action_result is an ActionResult, which   *)
(* is truthy whether or not the action succeeded.                          *)
AfterEnter(g, command, action_result) ==
    CountedTurn(command, "enter", action_result,
                check_win_condition(g, increment_turns(action_result.state)))

(* process_input, lines 203-219 *)
EnterTurn(g, s, command) ==
    AfterEnter(g, command,
               execute_custom_action(
                   get_object(g, resolve(g, s, command).resolved.direct_object_id),
                   "enter", s))

(* process_input, lines 234-240 *)
MovedTurn(command, moved, win) ==
    IF Truthy(win.win_msg)
    THEN Step(win.state,
              TurnResult(moved.result.message \o "\n\n" \o win.win_msg,
                         TRUE, TRUE, moved.result.error),
              "movement", command)
    ELSE Step(win.state, moved.result, "movement", command)

(* process_input, lines 232-241 *)
AfterMovement(g, command, moved) ==
    IF moved.result.error THEN Step(moved.state, moved.result, "movement", command)
    ELSE MovedTurn(command, moved, check_win_condition(g, increment_turns(moved.state)))

(* process_input, lines 222-241 *)
MovementTurn(g, s, command) == AfterMovement(g, command, handle_movement(command.verb, g, s))

(* process_input, lines 260-275 *)
AfterAction(g, command, action_result) ==
    IF action_result.success
    THEN CountedTurn(command, "dispatch", action_result,
                     check_win_condition(g, increment_turns(action_result.state)))
    ELSE Step(action_result.state, TurnResult(action_result.message, FALSE, FALSE, TRUE),
              "dispatch", command)

(* A variant that dispatches without looking at the resolver's verdict. *)
ResolvedTurn_unchecked(g, s, command, resolved) ==
    AfterAction(g, command, execute_action(resolved.resolved, g, s))

(* process_input, lines 245-258 *)
ResolvedTurn(g, s, command, resolved) ==
    IF ~resolved.success
    THEN Step(s, TurnResult(IF Truthy(resolved.error_message)
                            THEN resolved.error_message ELSE "I don't understand.",
                            FALSE, FALSE, TRUE),
              "resolve_error", command)
    ELSE AfterAction(g, command, execute_action(resolved.resolved, g, s))

(* process_input, lines 244-275 *)
DispatchTurn(g, s, command) == ResolvedTurn(g, s, command, resolve(g, s, command))

(* process_input, lines 166-275: the turn of a parsed command. *)
CommandTurn(g, s, command) ==
    IF IsMeta(command) THEN MetaTurn(g, s, command)
    ELSE IF HasEnterAction(g, s, command) THEN EnterTurn(g, s, command)
    ELSE IF command.verb \in DIRECTION_VERBS THEN MovementTurn(g, s, command)
    ELSE DispatchTurn(g, s, command)

(* process_input, lines 156-164: what follows the parser's answer. *)
ParsedTurn(g, s, parse_result) ==
    IF parse_result.kind = "raise" THEN RaisedTurn(s, parse_result.message)
    ELSE IF parse_result.kind = "fail" THEN ParseErrorTurn(s, parse_result)
    ELSE CommandTurn(g, s, parse_result.command)

process_input(g, s, user_input) ==
    IF s.game_over THEN EndedTurn(s)
    ELSE ParsedTurn(g, s, GameParser_parse(g, user_input))

(***************************************************************************)
(* Game definitions the engine is run on                                   *)
(***************************************************************************)

InitialState(current_room) ==
    [current_room |-> current_room, inventory |-> <<>>, flags |-> [n \in {} |-> FALSE]]

Game(rooms, objects, verbs, initial_state, win_condition) ==
    [rooms |-> rooms, objects |-> objects, verbs |-> verbs,
     initial_state |-> initial_state, win_condition |-> win_condition]

(* tests/conftest.py, minimal_game_dict: the win condition names the       *)
(* starting room.                                                          *)
MinimalGame ==
    Game(<<Room("start", "Starting Room", "A simple room.", <<>>, <<>>)>>,
         <<>>, <<>>, InitialState("start"), ReachRoom("start"))

(* tests/integration/test_custom_actions.py, game_with_custom_actions *)
CustomActionGame ==
    LET code_door ==
            [GameObject("code_door", "door", "start") EXCEPT
                !.description = "A door with a keypad.",
                !.takeable = FALSE, !.lockable = TRUE, !.locked = TRUE,
                !.actions =
                    ("unlock" :> [ObjectAction("You enter the code. Click!") EXCEPT
                                     !.condition = <<FlagsAtom("has_code")>>,
                                     !.state_changes =
                                         <<Change("code_door", "locked", FALSE)>>]) @@
                    ("open" :> [ObjectAction("The door swings open.") EXCEPT
                                   !.condition = <<Not(AttrAtom("code_door", "locked"))>>,
                                   !.state_changes =
                                       <<Change("code_door", "is_open", TRUE)>>]) @@
                    ("enter" :> [ObjectAction("You step through the door.") EXCEPT
                                    !.condition = <<AttrAtom("code_door", "is_open")>>,
                                    !.moves_player = "secret_room"])]
        npc ==
            [GameObject("npc", "guard", "start") EXCEPT
                !.description = "A guard.", !.takeable = FALSE,
                !.actions =
                    ("talk" :> [ObjectAction("The guard whispers: 'The code is 1234.'")
                                EXCEPT !.state_changes =
                                           <<Change("flags", "has_code", TRUE)>>])]
        machine ==
            [GameObject("machine", "vending machine", "start") EXCEPT
                !.description = "A machine.", !.takeable = FALSE,
                !.actions =
                    ("use" :> [ObjectAction("You use the machine.") EXCEPT
                                  !.condition = <<FlagsAtom("has_code"), AndTok,
                                                  InvAtom("coin")>>,
                                  !.state_changes =
                                      <<Change("flags", "used_machine", TRUE)>>,
                                  !.reveals_object = "prize"])]
        coin == [GameObject("coin", "coin", "start") EXCEPT
                    !.description = "A shiny coin."]
        prize == [GameObject("prize", "prize", "start") EXCEPT
                     !.description = "A prize from the machine.", !.hidden = TRUE]
    IN  Game(<<Room("start", "Start Room", "A test room.", <<>>,
                    <<"code_door", "npc", "machine">>),
               Room("secret_room", "Secret Room", "You made it!",
                    <<ExitEntry("south", StrExit("start"))>>, <<>>)>>,
             <<validate_attributes(code_door), validate_attributes(npc),
               validate_attributes(machine), validate_attributes(coin),
               validate_attributes(prize)>>,
             <<>>, InitialState("start"), ReachRoom("secret_room"))

(* tests/unit/test_custom_verbs.py, game_with_custom_verbs *)
CustomVerbGame ==
    LET altar ==
            [GameObject("altar", "stone altar", "temple") EXCEPT
                !.description = "An ancient altar.", !.takeable = FALSE,
                !.actions =
                    ("pray" :> [ObjectAction(
                                    "You kneel and pray. A sense of peace fills you.")
                                EXCEPT !.state_changes =
                                           <<Change("flags", "blessed", TRUE)>>]) @@
                    ("worship" :> StrAction("You bow before the altar."))]
        statue ==
            [GameObject("statue", "golden statue", "temple") EXCEPT
                !.description = "A golden statue.", !.takeable = FALSE,
                !.actions =
                    ("dance" :> StrAction(
                                   "You dance around the statue. Nothing happens."))]
    IN  Game(<<Room("temple", "Ancient Temple", "A dusty temple with an altar.", <<>>,
                    <<"altar", "statue">>)>>,
             <<validate_attributes(altar), validate_attributes(statue)>>,
             <<VerbDefinition("pray", <<"worship", "kneel">>),
               VerbDefinition("dance", <<"boogie">>)>>,
             InitialState("temple"), FlagSet("blessed"))

(* A game with a locked Exit record (the Room of tests/unit/test_models.py, *)
(* test_room_with_exit_objects), an "in" exit, a takeable key, two coins    *)
(* sharing a noun, a hatch with an unconditional "enter" action, and a win *)
(* condition that takes two turns to meet.                                 *)
HallGame ==
    LET brass_key == [GameObject("brass_key", "brass key", "hall") EXCEPT
                         !.adjectives = <<"brass">>]
        rusty_coin == GameObject("rusty_coin", "rusty coin", "kitchen")
        gold_coin == GameObject("gold_coin", "gold coin", "kitchen")
        hatch == [GameObject("hatch", "hatch", "closet") EXCEPT
                     !.takeable = FALSE,
                     !.actions =
                         ("enter" :> [ObjectAction("You climb through the hatch.")
                                      EXCEPT !.moves_player = "kitchen"])]
    IN  Game(<<Room("hall", "Hall", "A hallway.",
                    <<ExitEntry("north", Exit("library", TRUE, "It's locked!")),
                      ExitEntry("east", StrExit("kitchen")),
                      ExitEntry("in", StrExit("closet"))>>,
                    <<"brass_key">>),
               Room("library", "Library", "A library.",
                    <<ExitEntry("south", StrExit("hall"))>>, <<>>),
               Room("kitchen", "Kitchen", "A kitchen.",
                    <<ExitEntry("west", StrExit("hall"))>>,
                    <<"rusty_coin", "gold_coin">>),
               Room("closet", "Closet", "A closet.",
                    <<ExitEntry("out", Exit("hall", FALSE, "The way is locked."))>>,
                    <<"hatch">>)>>,
             <<validate_attributes(brass_key), validate_attributes(rusty_coin),
               validate_attributes(gold_coin), validate_attributes(hatch)>>,
             <<>>, InitialState("hall"),
             WinCondition("all_of", None, None, None,
                          <<HaveObject("brass_key"), ReachRoom("kitchen")>>))

(* A game for ENTER <object>: the camp has an "in" exit to the cave and a   *)
(* tent whose "enter" action (the shape exercised by TestCustomEnterAction *)
(* in tests/integration/test_custom_actions.py) needs the lantern and      *)
(* moves the player into the tent, which is the room to reach.  Its verb   *)
(* "pour" declares a preposition and, by the VerbDefinition defaults,      *)
(* requires no object.  The camp and the cave have first-visit texts.      *)
CampGame ==
    LET tent == [GameObject("tent", "tent", "camp") EXCEPT
                    !.takeable = FALSE,
                    !.actions =
                        ("enter" :> [ObjectAction("You crawl into the tent.") EXCEPT
                                        !.condition = <<InvAtom("lantern")>>,
                                        !.moves_player = "tent_interior"])]
        lantern == GameObject("lantern", "lantern", "camp")
    IN  Game(<<[Room("camp", "Camp", "A camp.",
                     <<ExitEntry("in", StrExit("cave"))>>, <<"tent", "lantern">>)
                   EXCEPT !.first_visit_description = "You pitch your camp."],
               [Room("cave", "Cave", "A cave.",
                     <<ExitEntry("out", StrExit("camp"))>>, <<>>)
                   EXCEPT !.first_visit_description = "Bats scatter as you come in."],
               Room("tent_interior", "Tent", "Inside the tent.",
                    <<ExitEntry("out", StrExit("camp"))>>, <<>>)>>,
             <<validate_attributes(tent), validate_attributes(lantern)>>,
             <<[VerbDefinition("pour", <<>>) EXCEPT !.prepositions = <<"on">>]>>,
             InitialState("camp"), ReachRoom("tent_interior"))

(* A game for object visibility: a closed box holding the coin (the        *)
(* container case of tests/unit/engine/test_engine.py, TestContainers), an *)
(* open pouch holding a gem and an open case that holds a pearl (two deep, *)
(* tests/unit/parser/test_resolver.py, TestVisibility), a hidden ghost, a  *)
(* relic at "nowhere" and an idol in the next room.  The lever's "use"     *)
(* action has the condition                                                *)
(* "box.is_open || pouch.is_open && inventory.includes('gem')".            *)
VaultGame ==
    LET box == [GameObject("box", "box", "vault") EXCEPT
                   !.takeable = FALSE, !.container = TRUE]
        coin == GameObject("coin", "coin", "box")
        pouch == [GameObject("pouch", "pouch", "vault") EXCEPT
                     !.container = TRUE, !.is_open = TRUE]
        gem == GameObject("gem", "gem", "pouch")
        case == [GameObject("case", "case", "pouch") EXCEPT
                    !.container = TRUE, !.is_open = TRUE]
        pearl == GameObject("pearl", "pearl", "case")
        ghost == [GameObject("ghost", "ghost", "vault") EXCEPT !.hidden = TRUE]
        relic == GameObject("relic", "relic", "nowhere")
        idol == GameObject("idol", "idol", "crypt")
        lever == [GameObject("lever", "lever", "vault") EXCEPT
                     !.takeable = FALSE,
                     !.actions =
                         ("use" :> [ObjectAction("The lever gives way.") EXCEPT
                                       !.condition =
                                           <<AttrAtom("box", "is_open"), OrTok,
                                             AttrAtom("pouch", "is_open"), AndTok,
                                             InvAtom("gem")>>,
                                       !.state_changes =
                                           <<Change("flags", "lever_pulled", TRUE)>>])]
    IN  Game(<<Room("vault", "Vault", "A vault.",
                    <<ExitEntry("east", StrExit("crypt"))>>,
                    <<"box", "pouch", "ghost", "lever">>),
               Room("crypt", "Crypt", "A crypt.",
                    <<ExitEntry("west", StrExit("vault"))>>, <<"idol">>)>>,
             <<validate_attributes(box), validate_attributes(coin),
               validate_attributes(pouch), validate_attributes(gem),
               validate_attributes(case), validate_attributes(pearl),
               validate_attributes(ghost), validate_attributes(relic),
               validate_attributes(idol), validate_attributes(lever)>>,
             <<>>, InitialState("vault"), HaveObject("relic"))

(* A game for the effects of rule-form actions: a token whose "use" action *)
(* and whose bowl's "insert:token" action set consumes_object, and whose   *)
(* "give:bowl" action, like the bowl's "examine" action, has a condition   *)
(* on a flag that nothing sets, with a fail_message.                       *)
OfferingGame ==
    LET token == [GameObject("token", "token", "shrine") EXCEPT
                     !.actions =
                         ("use" :> [ObjectAction("The token crumbles to dust.") EXCEPT
                                       !.consumes_object = TRUE]) @@
                         ("give:bowl" :> [ObjectAction("The bowl accepts the token.") EXCEPT
                                             !.condition = <<FlagsAtom("welcome")>>,
                                             !.fail_message = "The bowl ignores you."])]
        bowl == [GameObject("bowl", "bowl", "shrine") EXCEPT
                    !.takeable = FALSE,
                    !.actions =
                        ("insert:token" :> [ObjectAction("The token drops into the bowl.")
                                            EXCEPT !.consumes_object = TRUE,
                                                   !.state_changes =
                                                       <<Change("flags", "offered", TRUE)>>]) @@
                        ("examine" :> [ObjectAction("Runes glow inside the bowl.") EXCEPT
                                          !.condition = <<FlagsAtom("lit")>>,
                                          !.fail_message = "It is too dark to see."])]
    IN  Game(<<Room("shrine", "Shrine", "A shrine.", <<>>, <<"token", "bowl">>)>>,
             <<validate_attributes(token), validate_attributes(bowl)>>,
             <<>>, InitialState("shrine"), FlagSet("ascended"))

(* A session that starts with two items carried and a flag set: the rope   *)
(* is defined on the dock and the map nowhere, both are in the initial     *)
(* inventory; the anchor and an open crate stay on the dock and the pier   *)
(* is a second room.  The anchor's "examine" action is a rule with effects: *)
(* it sets flags.inspected and reveals the hidden shell.                   *)
PackedGame ==
    Game(<<Room("dock", "Dock", "A wooden dock.",
                <<ExitEntry("north", StrExit("pier"))>>, <<"rope", "anchor", "crate">>),
           Room("pier", "Pier", "A long pier.",
                <<ExitEntry("south", StrExit("dock"))>>, <<>>)>>,
         <<validate_attributes(GameObject("rope", "rope", "dock")),
           validate_attributes(
               [GameObject("anchor", "anchor", "dock") EXCEPT
                   !.actions =
                       ("examine" :> [ObjectAction("Barnacles hide a shell.") EXCEPT
                                         !.state_changes =
                                             <<Change("flags", "inspected", TRUE)>>,
                                         !.reveals_object = "shell"])]),
           validate_attributes([GameObject("shell", "shell", "dock") EXCEPT
                                   !.hidden = TRUE]),
           validate_attributes(GameObject("map", "map", "nowhere")),
           validate_attributes([GameObject("crate", "crate", "dock") EXCEPT
                                   !.container = TRUE, !.is_open = TRUE])>>,
         <<>>,
         [InitialState("dock") EXCEPT !.inventory = <<"rope", "map">>,
                                      !.flags = ("packed" :> TRUE)],
         FlagSet("sailed"))

(* A game with a keyed lock: a chest that starts closed and locked, opened *)
(* by the iron key that lies on the cellar floor, and a pin that fits      *)
(* nothing.                                                                *)
CellarGame ==
    Game(<<Room("cellar", "Cellar", "A damp cellar.", <<>>,
                <<"chest", "iron_key", "pin">>)>>,
         <<validate_attributes([GameObject("chest", "chest", "cellar") EXCEPT
                                   !.takeable = FALSE, !.openable = TRUE,
                                   !.container = TRUE, !.lockable = TRUE,
                                   !.locked = TRUE, !.key_object = "iron_key"]),
           validate_attributes(GameObject("iron_key", "key", "cellar")),
           validate_attributes([GameObject("pin", "pin", "cellar") EXCEPT
                                   !.takeable = FALSE])>>,
         <<>>, InitialState("cellar"), FlagSet("escaped"))

(* A game whose win condition carries an empty win_message (the field is  *)
(* a plain str): the garden north of the porch is the goal.                *)
QuietGame ==
    Game(<<Room("porch", "Porch", "A porch.",
                <<ExitEntry("north", StrExit("garden"))>>, <<>>),
           Room("garden", "Garden", "A garden.",
                <<ExitEntry("south", StrExit("porch"))>>, <<>>)>>,
         <<>>, <<>>, InitialState("porch"),
         [ReachRoom("garden") EXCEPT !.win_message = ""])

Games ==
    {MinimalGame, CustomActionGame, CustomVerbGame, HallGame, CampGame, VaultGame,
     OfferingGame, PackedGame, CellarGame, QuietGame}

(* Lines of player input, each cut into the parts the lexer's regex splits *)
(* it into (words, whitespace, punctuation).                               *)
Inputs == {
    <<>>, <<" ">>, <<"the">>, <<" ", "THE", " ">>, <<"a", " ", "AN", " ", "the">>,
    <<"xyzzy">>, <<"take">>, <<"go">>,
    <<"look">>, <<"i">>, <<"help">>, <<"save">>, <<"load">>, <<"quit">>, <<"wait">>,
    <<"north">>, <<"go", " ", "east">>, <<"west">>, <<"south">>, <<"in">>, <<"out">>,
    <<"enter", " ", "xyzzy">>, <<"east", " ", "foo">>,
    <<"TAKE", " ", "the", " ", "key">>, <<"take", " ", "coin">>,
    <<"drop", " ", "key">>, <<"examine", " ", "key">>,
    <<"put", " ", "key", " ", "in", " ", "box">>,
    <<"enter", " ", "hatch">>,
    <<"enter", " ", "door">>, <<"talk", " ", "guard">>, <<"unlock", " ", "door">>,
    <<"open", " ", "door">>, <<"use", " ", "machine">>,
    <<"pray">>, <<"kneel">>, <<"dance">>, <<"pray", " ", "altar">>,
    <<"enter", " ", "tent">>, <<"take", " ", "lantern">>,
    <<"pour", " ", "on", " ", "tent">>,
    <<"open", " ", "box">>, <<"close", " ", "box">>, <<"take", " ", "gem">>,
    <<"take", " ", "pouch">>, <<"take", " ", "case">>, <<"take", " ", "pearl">>,
    <<"take", " ", "ghost">>, <<"take", " ", "relic">>, <<"take", " ", "idol">>,
    <<"drop", " ", "coin">>, <<"drop", " ", "pouch">>, <<"use", " ", "lever">>,
    <<"take", " ", "token">>, <<"use", " ", "token">>, <<"examine", " ", "bowl">>,
    <<"insert", " ", "token", " ", "in", " ", "bowl">>,
    <<"give", " ", "token", " ", "to", " ", "bowl">>,
    <<"put", " ", "rope", " ", "on", " ", "anchor">>,
    <<"put", " ", "rope", " ", "in", " ", "crate">>,
    <<"put", " ", "rope", " ", "in", " ", "anchor">>,
    <<"put", " ", "anchor", " ", "in", " ", "crate">>,
    <<"place", " ", "map", " ", "under", " ", "crate">>, <<"close", " ", "crate">>,
    <<"examine", " ", "anchor">>, <<"take", " ", "crate">>,
    <<"put", " ", "crate", " ", "in", " ", "crate">>,
    <<"unlock", " ", "chest", " ", "with", " ", "key">>,
    <<"lock", " ", "chest", " ", "with", " ", "key">>,
    <<"unlock", " ", "chest", " ", "with", " ", "pin">>,
    <<"open", " ", "chest">>, <<"close", " ", "chest">>}

(* Calls that start with the turn counter at MaxTurns are not explored. *)
MaxTurns == 3

NoCall == [op |-> "init", input |-> <<>>, path |-> "none", command |-> NoCommand]

(* player/ai_player.py, PlaySession: turns, rooms_visited, items_collected, *)
(* won, gave_up and stuck_count, which moves in halves and is kept doubled *)
(* (2 stands for 1.0); max_turns and max_stuck_turns are play's argument   *)
(* and the player's setting; pc is "loop" while play is in its while loop. *)
(* commands_issued grows with turns and is not kept apart from it.         *)
PlaySession(max_turns, max_stuck_turns) ==
    [turns |-> 0, rooms_visited |-> {}, items_collected |-> <<>>, won |-> FALSE,
     gave_up |-> FALSE, stuck_count |-> 0, max_turns |-> max_turns,
     max_stuck_turns |-> max_stuck_turns, pc |-> "loop"]

(* No play in progress: the engine is driven directly. *)
NoSession == [PlaySession(0, 0) EXCEPT !.pc = "none"]

Init ==
    /\ game \in Games
    /\ state = from_game(game)
    /\ result = TurnResult("", FALSE, FALSE, FALSE)
    /\ call = NoCall
    /\ session = NoSession

(* A variant in which a call empties the definition's verbs and objects.   *)
definition_after_call_rewritten(g) == [g EXCEPT !.verbs = <<>>, !.objects = <<>>]

(* self.game after a call of the engine: process_input, describe_current_  *)
(* room and the handlers read rooms, exits, objects, actions and the win   *)
(* condition and assign only to GameState, ObjectState and RoomState.      *)
definition_after_call(g) == g

(* engine.process_input(user_input) *)
ProcessInput ==
    /\ state.turns < MaxTurns
    /\ \E user_input \in Inputs :
          \E step \in {process_input(game, state, user_input)} :
              /\ state' = step.state
              /\ result' = step.result
              /\ call' = [op |-> "process_input", input |-> user_input,
                          path |-> step.path, command |-> step.command]
    /\ game' = definition_after_call(game)
    /\ UNCHANGED session

(* engine.describe_current_room(): the text is returned in result.message. *)
DescribeCurrentRoom ==
    /\ state.turns < MaxTurns
    /\ \E d \in {describe_current_room(game, state)} :
           /\ state' = d.state
           /\ result' = TurnResult(d.message, FALSE, FALSE, FALSE)
           /\ call' = [NoCall EXCEPT !.op = "describe_current_room"]
    /\ game' = definition_after_call(game)
    /\ UNCHANGED session

(* The session is saved and an engine is resumed from the loaded state:    *)
(* GameEngine(game, state=GameState.from_save_dict(state.to_save_dict())). *)
SaveAndResume ==
    /\ state' = from_save_dict(to_save_dict(state))
    /\ call' = [NoCall EXCEPT !.op = "from_save_dict"]
    /\ UNCHANGED <<game, result, session>>

Next == ProcessInput \/ DescribeCurrentRoom \/ SaveAndResume

Spec == Init /\ [][Next]_vars

(***************************************************************************)
(* The resolver on its own: ObjectResolver(game, state).resolve(command)    *)
(* on the two-keys game of tests/unit/parser/test_resolver.py, with the    *)
(* ids and the adjective lists of the two keys drawn from small sets.      *)
(***************************************************************************)

KeyIds == {"brass_key", "silver_key", "key", "k1"}

FirstKeyAdjectives == {<<"brass", "small">>, <<"brass">>}

SecondKeyAdjectives == {<<"silver", "large">>, <<"silver">>, <<>>}

TwoKeysGame(id1, id2, adjectives1, adjectives2) ==
    Game(<<Room("room1", "Room One", "A room with two keys.", <<>>, <<>>)>>,
         <<validate_attributes([GameObject(id1, "key", "room1") EXCEPT
                                   !.adjectives = adjectives1]),
           validate_attributes([GameObject(id2, "key", "room1") EXCEPT
                                   !.adjectives = adjectives2]),
           validate_attributes([GameObject("lamp", "lamp", "room1") EXCEPT
                                   !.adjectives = <<"brass">>])>>,
         <<>>, InitialState("room1"), ReachRoom("room1"))

KeyPhrases ==
    {<<"key">>, <<"brass", "key">>, <<"silver", "key">>, <<"small", "key">>,
     <<"small", "brass", "key">>, <<"large", "key">>, <<"lamp">>, <<"sword">>}

(* No resolution requested yet. *)
NoResolution ==
    [success |-> FALSE, resolved |-> NoResolved, error_type |-> None,
     error_message |-> None, ambiguous_objects |-> <<>>]

InitResolver ==
    /\ \E id1 \in KeyIds, id2 \in KeyIds :
          /\ id1 # id2
          /\ \E adjectives1 \in FirstKeyAdjectives, adjectives2 \in SecondKeyAdjectives :
                game = TwoKeysGame(id1, id2, adjectives1, adjectives2)
    /\ state = from_game(game)
    /\ result = NoResolution
    /\ call = NoCall
    /\ session = NoSession

(* resolver.resolve(Command(verb, direct_object=phrase)); the              *)
(* ResolutionResult is kept in result.                                     *)
Resolve ==
    /\ \E phrase \in KeyPhrases, verb \in {"TAKE", "EXAMINE"} :
          \E command \in {Command(verb, phrase, None, <<>>, None)} :
             /\ result' = resolve(game, state, command)
             /\ call' = [op |-> "resolve", input |-> phrase, path |-> "none",
                         command |-> command]
    /\ UNCHANGED <<game, state, session>>

NextResolver == Resolve

ResolverSpec == InitResolver /\ [][NextResolver]_vars

(***************************************************************************)
(* player/ai_player.py: AIPlayer.play                                      *)
(***************************************************************************)

MaxPlayTurns == 4

MaxStuckTurns == 3

PlayerGames == {HallGame, PackedGame}

(* What the LLM may answer as its command; <<>> is an answer without one. *)
LLMAnswers ==
    {<<>>, <<"look">>, <<"north">>, <<"east">>, <<"quit">>, <<"xyzzy">>,
     <<"take", " ", "brass", " ", "key">>, <<"drop", " ", "rope">>}

(* str.upper() on the parts the answers are made of. *)
UpperOf ==
    ("look" :> "LOOK") @@ ("north" :> "NORTH") @@ ("east" :> "EAST") @@
    ("quit" :> "QUIT") @@ ("xyzzy" :> "XYZZY") @@ ("take" :> "TAKE") @@
    ("brass" :> "BRASS") @@ ("key" :> "KEY") @@ ("drop" :> "DROP") @@
    ("rope" :> "ROPE")

Upper(text) ==
    [i \in DOMAIN text |-> IF text[i] \in DOMAIN UpperOf THEN UpperOf[text[i]] ELSE text[i]]

(* _get_next_command: command.upper() if command else "LOOK"; play then    *)
(* applies strip().upper() again.                                          *)
get_next_command(answer) == IF answer = <<>> THEN <<"LOOK">> ELSE Upper(answer)

(* for item in engine.state.inventory: append it if not yet collected. *)
RECURSIVE CollectItems(_, _)
CollectItems(items_collected, inventory) ==
    IF inventory = <<>> THEN items_collected
    ELSE CollectItems(IF Head(inventory) \in Range(items_collected)
                      THEN items_collected
                      ELSE Append(items_collected, Head(inventory)),
                      Tail(inventory))

(* A variant that counts a successful turn without progress as a whole    *)
(* stuck turn.                                                             *)
StuckAfter_whole_steps(stuck_count, made_progress, error) ==
    IF made_progress THEN 0 ELSE stuck_count + 2

(* stuck_count after a turn, doubled: 0 on progress, +1 on an error,       *)
(* +0.5 otherwise.                                                         *)
StuckAfter(stuck_count, made_progress, error) ==
    IF made_progress THEN 0
    ELSE IF error THEN stuck_count + 2
    ELSE stuck_count + 1

(* play, lines 186-215: the turn is counted and progress is tracked. *)
track_turn(sess, s, res) ==
    LET rooms == sess.rooms_visited \cup {s.current_room}
        items == CollectItems(sess.items_collected, s.inventory)
        made_progress == \/ Cardinality(rooms) > Cardinality(sess.rooms_visited)
                         \/ Len(items) > Len(sess.items_collected)
    IN  [sess EXCEPT !.turns = @ + 1,
                     !.rooms_visited = rooms,
                     !.items_collected = items,
                     !.stuck_count = StuckAfter(@, made_progress, res.error)]

(* A variant that plays on after the game is over. *)
after_game_over_ignored(sess, res) == sess

(* play, lines 222-227: if result.game_over: session.won = result.won; break *)
after_game_over(sess, res) ==
    IF res.game_over THEN [sess EXCEPT !.won = res.won, !.pc = "done"] ELSE sess

(* The record of a play step: the call as in NoCall and, as history, the   *)
(* number of error turns without progress that immediately precede         *)
(* (failing_run) and the doubled stuck_count the first of them found       *)
(* (run_start, 0 when there is no such run).                               *)
PlayCall(input, path, command, failing_run, run_start) ==
    [op |-> "play", input |-> input, path |-> path, command |-> command,
     failing_run |-> failing_run, run_start |-> run_start]

(* The history after a turn that took the session from sess to after. *)
PlayCallAfter(input, step, sess, after, before) ==
    IF step.result.error /\ after.stuck_count # 0
    THEN PlayCall(input, step.path, step.command, before.failing_run + 1,
                  IF before.failing_run = 0 THEN sess.stuck_count ELSE before.run_start)
    ELSE PlayCall(input, step.path, step.command, 0, 0)

(* engine = GameEngine(game); session = PlaySession(); the initial room is *)
(* described and recorded as visited.                                      *)
InitPlayer ==
    /\ game \in PlayerGames
    /\ state = describe_current_room(game, from_game(game)).state
    /\ result = TurnResult("", FALSE, FALSE, FALSE)
    /\ call = PlayCall(<<>>, "none", NoCommand, 0, 0)
    /\ \E max_turns \in 0..MaxPlayTurns, max_stuck_turns \in 0..MaxStuckTurns :
          session = [PlaySession(max_turns, max_stuck_turns) EXCEPT
                        !.rooms_visited = {state.current_room}]

(* One pass of the while loop that issues a command. An exception raised   *)
(* by process_input leaves play.                                           *)
PlayTurn ==
    /\ session.pc = "loop"
    /\ session.turns < session.max_turns
    /\ session.stuck_count < 2 * session.max_stuck_turns
    /\ \E answer \in LLMAnswers :
          \E command \in {get_next_command(answer)} :
             \E step \in {process_input(game, state, command)} :
                /\ state' = step.state
                /\ result' = step.result
                /\ session' = IF step.result.raised
                              THEN [session EXCEPT !.pc = "raised"]
                              ELSE after_game_over(track_turn(session, step.state,
                                                              step.result),
                                                   step.result)
                /\ call' = PlayCallAfter(command, step, session,
                                         track_turn(session, step.state, step.result),
                                         call)
    /\ game' = definition_after_call(game)

(* "if session.stuck_count >= self._max_stuck_turns": gave_up and break. *)
GiveUp ==
    /\ session.pc = "loop"
    /\ session.turns < session.max_turns
    /\ session.stuck_count >= 2 * session.max_stuck_turns
    /\ session' = [session EXCEPT !.gave_up = TRUE, !.pc = "done"]
    /\ UNCHANGED <<game, state, result, call>>

(* "while session.turns < max_turns" is false: the loop is left. *)
LoopExit ==
    /\ session.pc = "loop"
    /\ session.turns >= session.max_turns
    /\ session' = [session EXCEPT !.pc = "done"]
    /\ UNCHANGED <<game, state, result, call>>

NextPlayer == PlayTurn \/ GiveUp \/ LoopExit

(* play is sequential code: while it is in the loop and the LLM answers,   *)
(* its next step is taken.                                                 *)
PlayerSpec == InitPlayer /\ [][NextPlayer]_vars /\ WF_vars(NextPlayer)

(***************************************************************************)
(* Properties of process_input                                             *)
(***************************************************************************)

(* The step is a process_input call. *)
Called == call'.op = "process_input"

(* The step is a process_input call on an active session whose input      *)
(* parsed; call'.command is the parsed command.                            *)
CalledWithCommand == Called /\ ~state.game_over /\ call'.command # NoCommand

(* C1: once the session has ended (game_over is true), every process_input *)
(* call returns game_over = TRUE with won equal to state.won and leaves    *)
(* the whole state unchanged.                                              *)
C1_EndedIsTerminal ==
    [][(Called /\ state.game_over) =>
           /\ result'.game_over
           /\ result'.won = state.won
           /\ state' = state]_vars

(* A call made after a win was answered by the ended branch. *)
C1_Witness == call.path = "ended" /\ state.game_over /\ state.won /\ result.won

(* C2: every process_input call that returns error = TRUE leaves the turn  *)
(* counter unchanged, on every verb path.                                  *)
C2_FailedActionsCostNothing ==
    [][(Called /\ result'.error) => state'.turns = state.turns]_vars

(* C3: every process_input call changes the turn counter by 0 or by 1; it  *)
(* adds exactly 1 for a successful movement, a successful handler action   *)
(* and WAIT, and adds nothing for HELP, SAVE, LOAD, bare LOOK, INVENTORY   *)
(* and QUIT.                                                               *)
C3_TurnCounting ==
    [][Called =>
           /\ state'.turns \in {state.turns, state.turns + 1}
           /\ (call'.path \in {"movement", "dispatch"} /\ ~result'.error)
                  => state'.turns = state.turns + 1
           /\ call'.path = "wait" => state'.turns = state.turns + 1
           /\ call'.path \in {"help", "save", "load", "look", "inventory", "quit"}
                  => state'.turns = state.turns]_vars

(* A second turn was consumed by a successful handler action. *)
C3_Witness == call.path = "dispatch" /\ ~result.error /\ state.turns = 2

(* C4: when the input of a call on an active session does not parse,      *)
(* process_input returns error = TRUE and the state is unchanged,          *)
(* including the turn counter.                                             *)
C4_ParseFailure ==
    [][(Called /\ ~state.game_over
          /\ GameParser_parse(game, call'.input).kind = "fail") =>
           /\ result'.error
           /\ state' = state]_vars

(* A verb missing its required object was rejected after a turn had been   *)
(* played.                                                                 *)
C4_Witness ==
    /\ call.path = "parse_error"
    /\ call.input = <<"take">>
    /\ result.error
    /\ state.turns > 0

(* C5, as stated: whenever an object phrase of the parsed command does not *)
(* resolve to exactly one visible object, process_input returns            *)
(* error = TRUE with the resolver's message and the state is unchanged,    *)
(* for every verb that carries an object phrase, ENTER <object> included.  *)
C5_AsStated ==
    [][(CalledWithCommand
          /\ call'.command.direct_object # <<>>
          /\ ~resolve(game, state, call'.command).success) =>
           /\ result'.error
           /\ result'.message = resolve(game, state, call'.command).error_message
           /\ state' = state]_vars

(* C5, amended: the same holds for every verb that reaches the resolver    *)
(* step, that is every verb other than the meta-commands and the eight     *)
(* direction verbs (ENTER is the direction verb IN).                       *)
C5_ResolutionFailure ==
    [][(CalledWithCommand
          /\ ~IsMeta(call'.command)
          /\ call'.command.verb \notin DIRECTION_VERBS
          /\ call'.command.direct_object # <<>>
          /\ ~resolve(game, state, call'.command).success) =>
           /\ result'.error
           /\ result'.message = resolve(game, state, call'.command).error_message
           /\ state' = state]_vars

(* An ambiguous object phrase was reported with the resolver's question. *)
C5_Witness ==
    /\ call.path = "resolve_error"
    /\ result.error
    /\ result.message = "Which coin do you mean?"

(* C6, as stated: after any process_input call that increments the turn    *)
(* counter, a win condition that is true of the resulting state has ended  *)
(* the session with won = TRUE and the result says so.                     *)
C6_AsStated ==
    [][(Called /\ state'.turns > state.turns
          /\ evaluate_win_condition(game.win_condition, state')) =>
           /\ state'.game_over /\ state'.won
           /\ result'.game_over /\ result'.won]_vars

(* What the engine does: every call that increments the turn counter other *)
(* than WAIT (which makes no win check) ends the session as won when the   *)
(* win condition is true of the resulting state; the result says so when   *)
(* the configured win message is not empty.                                *)
C6_WinCheckedAfterTurn ==
    [][(Called /\ state'.turns > state.turns /\ call'.path # "wait"
          /\ evaluate_win_condition(game.win_condition, state')) =>
           /\ state'.game_over /\ state'.won
           /\ game.win_condition.win_message # "" =>
                  result'.game_over /\ result'.won]_vars

(* A movement made the win condition true and ended the session as won. *)
C6_Witness ==
    /\ call.path = "movement"
    /\ evaluate_win_condition(game.win_condition, state)
    /\ state.won
    /\ result.won

(* C7: game_over changes from false to true only through QUIT (won stays   *)
(* false) or through a win check that evaluates true (won becomes true);   *)
(* it never changes back, and won is never true while game_over is false.  *)
C7_ActiveOrEnded ==
    [][/\ state.game_over => state'.game_over
       /\ state'.won => state'.game_over
       /\ (~state.game_over /\ state'.game_over) =>
              \/ call'.path = "quit" /\ ~state'.won
              \/ /\ call'.path \in {"enter", "movement", "dispatch"}
                 /\ evaluate_win_condition(game.win_condition, state')
                 /\ state'.won]_vars

(* QUIT ended a session that had played a turn, without a win. *)
C7_Witness == call.path = "quit" /\ state.game_over /\ ~state.won /\ state.turns > 0

(* C8: a movement command in a direction whose Exit record is locked       *)
(* returns error = TRUE with exactly the exit's lock_message and leaves    *)
(* current_room, the turn counter and the rest of the state unchanged.     *)
C8_LockedExit ==
    [][(CalledWithCommand /\ call'.path = "movement"
          /\ HasExit(get_room(game, state.current_room),
                     direction_map[call'.command.verb])
          /\ ~ExitOf(get_room(game, state.current_room),
                     direction_map[call'.command.verb]).is_str
          /\ ExitOf(get_room(game, state.current_room),
                    direction_map[call'.command.verb]).locked) =>
           /\ result'.error
           /\ result'.message = ExitOf(get_room(game, state.current_room),
                                       direction_map[call'.command.verb]).lock_message
           /\ state' = state]_vars

(* The locked north exit of the hall was tried after a turn had been       *)
(* played.                                                                 *)
C8_Witness ==
    /\ call.path = "movement"
    /\ call.command.verb = "NORTH"
    /\ result.error
    /\ result.message = "It's locked!"
    /\ state.current_room = "hall"
    /\ state.turns > 0

(* C9: for the keypad door (locked, not openable, no key_object, custom    *)
(* actions "unlock" on flags.has_code and "open" on !code_door.locked):    *)
(* OPEN DOOR fails while flags.has_code is unset; once the flag is set,    *)
(* UNLOCK DOOR succeeds and clears locked; the following OPEN DOOR         *)
(* succeeds and sets is_open.                                              *)
C9_CodeDoor ==
    [][(Called /\ ~state.game_over /\ game = CustomActionGame) =>
           /\ (call'.input = <<"open", " ", "door">> /\ ~FlagTruthy(state, "has_code"))
                  => result'.error
           /\ (call'.input = <<"unlock", " ", "door">> /\ FlagTruthy(state, "has_code")
                 /\ state.objects["code_door"].locked)
                  => ~result'.error /\ ~state'.objects["code_door"].locked
           /\ (call'.input = <<"open", " ", "door">>
                 /\ ~state.objects["code_door"].locked)
                  => ~result'.error /\ state'.objects["code_door"].is_open]_vars

(* C10: a custom verb entered without an object runs the custom action     *)
(* keyed by the verb's canonical name on an object of the current room:    *)
(* the action's effects are applied, the turn is consumed and the win      *)
(* condition is checked.                                                   *)
C10_CustomVerb ==
    [][(CalledWithCommand
          /\ call'.command.verb = "CUSTOM"
          /\ call'.command.direct_object = <<>>
          /\ FirstRoomAction(RoomObjects(game, state), call'.command.custom_verb,
                             game, state).found) =>
           /\ ~result'.error
           /\ state' = check_win_condition(game, increment_turns(
                           FirstRoomAction(RoomObjects(game, state),
                                           call'.command.custom_verb,
                                           game, state).state)).state
           /\ result'.won = state'.won]_vars

(* C11: for ENTER <object> where the object resolves and defines a         *)
(* rule-form custom "enter" action whose condition holds, that action runs *)
(* instead of movement through the room's "in" exit: the call is not an    *)
(* error, the player is in the action's moves_player room, the turn        *)
(* counter has increased by 1, and a win condition true of the new state   *)
(* has ended the session as won.                                           *)
C11_EnterRunsCustomAction ==
    [][(CalledWithCommand
          /\ call'.command.verb = "IN"
          /\ call'.command.direct_object # <<>>
          /\ resolve(game, state, call'.command).success) =>
           \A obj \in {get_object(game,
                           resolve(game, state, call'.command).resolved.direct_object_id)} :
              (/\ obj.id # None
               /\ "enter" \in DOMAIN obj.actions
               /\ ~obj.actions["enter"].is_str
               /\ \/ obj.actions["enter"].condition = <<>>
                  \/ evaluate_condition(obj.actions["enter"].condition, state)) =>
                  /\ ~result'.error
                  /\ Truthy(obj.actions["enter"].moves_player)
                        => state'.current_room = obj.actions["enter"].moves_player
                  /\ state'.turns = state.turns + 1
                  /\ evaluate_win_condition(game.win_condition, state')
                        => (state'.game_over /\ state'.won
                            /\ result'.game_over /\ result'.won)]_vars

(* The tent was entered from the camp, whose "in" exit leads to the cave,  *)
(* and the game was won inside the tent.                                   *)
C11_Witness ==
    /\ game = CampGame
    /\ call.input = <<"enter", " ", "tent">>
    /\ call.path = "enter"
    /\ state.current_room = "tent_interior"
    /\ state.won
    /\ result.won

(* C12: process_input never raises an exception to its caller, for every   *)
(* input, state and game the Game model accepts, custom verbs that declare *)
(* prepositions or require no direct object included.                      *)
C12_ProcessInputNeverRaises == ~result.raised

(* C13: an object inside a closed container that stands in the current     *)
(* room cannot be taken: TAKE <object> fails as not-found and changes no   *)
(* state.  A successful OPEN of that container opens it, and with the      *)
(* container open TAKE <object> succeeds, the object's location becomes    *)
(* "inventory" and the object is in the inventory list.                    *)
C13_TakeFromContainer ==
    [][CalledWithCommand =>
         \A i \in DOMAIN game.objects :
            \A obj \in {game.objects[i]} :
               \A box \in {get_object(game, state.objects[obj.id].location)} :
                  (/\ box.id # None
                   /\ state.objects[box.id].location = state.current_room
                   /\ ~state.objects[box.id].hidden
                   /\ ~state.objects[obj.id].hidden) =>
                      /\ (/\ call'.command.verb = "TAKE"
                          /\ call'.command.direct_object = <<obj.id>>
                          /\ ~state.objects[box.id].is_open) =>
                             /\ result'.error
                             /\ call'.path = "resolve_error"
                             /\ result'.message =
                                    "You can't see any " \o obj.id \o " here."
                             /\ state' = state
                      /\ (/\ call'.command.verb = "OPEN"
                          /\ call'.command.direct_object = <<box.id>>
                          /\ ~result'.error) =>
                             state'.objects[box.id].is_open
                      /\ (/\ call'.command.verb = "TAKE"
                          /\ call'.command.direct_object = <<obj.id>>
                          /\ obj.takeable
                          /\ state.objects[box.id].is_open) =>
                             /\ ~result'.error
                             /\ state'.objects[obj.id].location = "inventory"
                             /\ obj.id \in Range(state'.inventory)]_vars

(* TAKE COIN has succeeded on the coin of the box, which can only happen   *)
(* after OPEN BOX.                                                         *)
C13_Witness ==
    /\ game = VaultGame
    /\ call.input = <<"take", " ", "coin">>
    /\ call.path = "dispatch"
    /\ ~result.error
    /\ state.objects["box"].is_open
    /\ state.objects["coin"].location = "inventory"
    /\ state.inventory = <<"coin">>

(* C14: in every reachable state, for every visible, takeable, droppable   *)
(* object that is not held, TAKE followed by DROP of that object (nothing  *)
(* in between) both succeed, leave the object located in the room the      *)
(* player stands in, not in the inventory, and leave the inventory list    *)
(* as it was before the TAKE.                                              *)
C14_TakeThenDrop ==
    \A i \in DOMAIN game.objects :
       \A obj \in {game.objects[i]} :
          (/\ IsVisible(game, state, obj)
           /\ obj.takeable
           /\ obj.droppable
           /\ state.objects[obj.id].location # "inventory"
           /\ obj.id \notin Range(state.inventory)) =>
              \A taken \in {handle_take(ResolvedCommand("TAKE", obj.id, None, None, None),
                                        game, state)} :
                 \A dropped \in {handle_drop(ResolvedCommand("DROP", obj.id, None, None,
                                                             None),
                                             game, taken.state)} :
                    /\ taken.success
                    /\ taken.state.objects[obj.id].location = "inventory"
                    /\ dropped.success
                    /\ dropped.state.objects[obj.id].location = state.current_room
                    /\ obj.id \notin Range(dropped.state.inventory)
                    /\ dropped.state.inventory = state.inventory
                    /\ dropped.state.current_room = state.current_room

(* The coin was taken out of the open box and dropped: it lies in the      *)
(* vault and the inventory is empty again.                                 *)
C14_Witness ==
    /\ game = VaultGame
    /\ call.input = <<"drop", " ", "coin">>
    /\ call.path = "dispatch"
    /\ ~result.error
    /\ state.objects["coin"].location = "vault"
    /\ state.current_room = "vault"
    /\ state.inventory = <<>>

(* Object phrases a player may type: the names of the games' objects.      *)
ObjectPhrases ==
    {<<"coin">>, <<"box">>, <<"pouch">>, <<"gem">>, <<"case">>, <<"pearl">>,
     <<"ghost">>, <<"relic">>, <<"idol">>, <<"key">>, <<"brass", "key">>,
     <<"rusty", "coin">>, <<"lantern">>, <<"tent">>, <<"door">>, <<"prize">>,
     <<"hatch">>}

(* The visibility rule as the specification words it: not hidden, and in   *)
(* the current room, or carried, or inside an open object that is itself   *)
(* in the current room or carried.                                         *)
InReach(s, id) ==
    /\ ~s.objects[id].hidden
    /\ \/ s.objects[id].location = s.current_room
       \/ s.objects[id].location = "inventory"
       \/ \E c \in DOMAIN s.objects :
             /\ s.objects[id].location = c
             /\ s.objects[c].is_open
             /\ \/ s.objects[c].location = s.current_room
                \/ s.objects[c].location = "inventory"

(* C15: in every reachable state an object phrase resolves to an object    *)
(* only if the object is not hidden and is in the current room, carried,   *)
(* or inside an open object that is in the current room or carried; a      *)
(* phrase that names only objects outside that rule (in another room, in a *)
(* closed container, two containers deep, at "nowhere", hidden) fails      *)
(* with NOT_FOUND.                                                         *)
C15_OnlyVisibleResolves ==
    \A phrase \in ObjectPhrases :
       \A r \in {resolve(game, state, Command("TAKE", phrase, None, <<>>, None))} :
          \A named \in {match_object(phrase, game.objects)} :
             /\ r.success => InReach(state, r.resolved.direct_object_id)
             /\ (/\ named # <<>>
                 /\ \A k \in DOMAIN named : ~InReach(state, named[k].id)) =>
                    (~r.success /\ r.error_type = "NOT_FOUND")

(* The gem was taken out of the open pouch, and TAKE PEARL then failed as  *)
(* not-found: the pearl is in the case, which is in the pouch.             *)
C15_Witness ==
    /\ game = VaultGame
    /\ call.input = <<"take", " ", "pearl">>
    /\ call.path = "resolve_error"
    /\ result.message = "You can't see any pearl here."
    /\ state.objects["pearl"].location = "case"
    /\ state.objects["case"].location = "pouch"
    /\ state.objects["gem"].location = "inventory"

(* C16 as stated: for two visible objects with the same name and disjoint  *)
(* adjective lists, whatever their ids, the bare name is AMBIGUOUS between *)
(* the two, and the name qualified by an adjective of only one of them     *)
(* resolves to that one.                                                   *)
C16_AsStated ==
    call.op = "resolve" =>
       \A key1 \in {game.objects[1]}, key2 \in {game.objects[2]} :
          /\ call.input = <<"key">> =>
                /\ ~result.success
                /\ result.error_type = "AMBIGUOUS"
                /\ result.ambiguous_objects = <<key1.name, key2.name>>
          /\ \A adjective \in Range(key1.adjectives) \ Range(key2.adjectives) :
                call.input = <<adjective, "key">> =>
                   (result.success /\ result.resolved.direct_object_id = key1.id)
          /\ \A adjective \in Range(key2.adjectives) \ Range(key1.adjectives) :
                call.input = <<adjective, "key">> =>
                   (result.success /\ result.resolved.direct_object_id = key2.id)

(* C16: for two visible objects with the same name and disjoint adjective  *)
(* lists, when no visible object's id equals the phrase with its spaces    *)
(* replaced by underscores, the bare name is AMBIGUOUS between exactly the *)
(* two, and the name qualified by an adjective of only one of them         *)
(* resolves to exactly that one.                                           *)
C16_AmbiguityAndAdjectives ==
    (/\ call.op = "resolve"
     /\ \A i \in DOMAIN game.objects : game.objects[i].id # Join(call.input, "_")) =>
       \A key1 \in {game.objects[1]}, key2 \in {game.objects[2]} :
          /\ call.input = <<"key">> =>
                /\ ~result.success
                /\ result.error_type = "AMBIGUOUS"
                /\ result.ambiguous_objects = <<key1.name, key2.name>>
                /\ match_object(call.input, get_visible_objects(game, state))
                      = <<key1, key2>>
          /\ \A adjective \in Range(key1.adjectives) \ Range(key2.adjectives) :
                call.input = <<adjective, "key">> =>
                   /\ result.success
                   /\ result.resolved.direct_object_id = key1.id
                   /\ match_object(call.input, get_visible_objects(game, state))
                         = <<key1>>
          /\ \A adjective \in Range(key2.adjectives) \ Range(key1.adjectives) :
                call.input = <<adjective, "key">> =>
                   /\ result.success
                   /\ result.resolved.direct_object_id = key2.id
                   /\ match_object(call.input, get_visible_objects(game, state))
                         = <<key2>>

(* "silver key" was resolved to the second key, whose id is not the phrase *)
(* and whose adjectives alone contain "silver".                            *)
C16_Witness ==
    /\ call.op = "resolve"
    /\ call.input = <<"silver", "key">>
    /\ game.objects[1].id = "brass_key"
    /\ game.objects[2].id = "k1"
    /\ "silver" \in Range(game.objects[2].adjectives)
    /\ result.success
    /\ result.resolved.direct_object_id = "k1"

(* Leaf win conditions over the rooms, objects and flags of the games.     *)
WinLeaves ==
    {ReachRoom("kitchen"), ReachRoom("vault"), ReachRoom("start"),
     HaveObject("brass_key"), HaveObject("coin"), HaveObject("lantern"),
     FlagSet("has_code"), FlagSet("blessed")}

AllOf(conditions) == WinCondition("all_of", None, None, None, conditions)

AnyOf(conditions) == WinCondition("any_of", None, None, None, conditions)

(* What a leaf asks of the state, in the specification's words. *)
LeafHolds(leaf, s) ==
    \/ leaf.type = "reach_room" /\ s.current_room = leaf.room
    \/ leaf.type = "have_object" /\ \E k \in DOMAIN s.inventory : s.inventory[k] = leaf.object
    \/ /\ leaf.type = "flag_set"
       /\ leaf.flag \in DOMAIN s.flags
       /\ s.flags[leaf.flag] = TRUE

(* C17: in every reachable state, reach_room is true iff the current room  *)
(* is the target, have_object iff the object is in the inventory list,     *)
(* flag_set iff the flag is truthy; all_of is true iff its list is not     *)
(* empty and every child is true; any_of is true iff at least one child is *)
(* true; both are false for an empty list, also when nested.               *)
C17_WinConditionSemantics ==
    /\ ~evaluate_win_condition(AllOf(<<>>), state)
    /\ ~evaluate_win_condition(AnyOf(<<>>), state)
    /\ \A A \in WinLeaves :
          /\ evaluate_win_condition(A, state) <=> LeafHolds(A, state)
          /\ evaluate_win_condition(AllOf(<<A>>), state) <=> LeafHolds(A, state)
          /\ evaluate_win_condition(AnyOf(<<A>>), state) <=> LeafHolds(A, state)
          /\ ~evaluate_win_condition(AllOf(<<A, AllOf(<<>>)>>), state)
          /\ evaluate_win_condition(AnyOf(<<AnyOf(<<>>), A>>), state)
                <=> LeafHolds(A, state)
          /\ \A B \in WinLeaves :
                /\ evaluate_win_condition(AllOf(<<A, B>>), state)
                      <=> (LeafHolds(A, state) /\ LeafHolds(B, state))
                /\ evaluate_win_condition(AnyOf(<<A, B>>), state)
                      <=> (LeafHolds(A, state) \/ LeafHolds(B, state))
                /\ evaluate_win_condition(AnyOf(<<AllOf(<<A, B>>), AllOf(<<>>)>>), state)
                      <=> (LeafHolds(A, state) /\ LeafHolds(B, state))

(* The hall game, whose win condition is all_of(have brass_key, reach      *)
(* kitchen), was won by a move into the kitchen with the key in hand; one  *)
(* child alone had not ended it.                                           *)
C17_Witness ==
    /\ game = HallGame
    /\ call.path = "movement"
    /\ state.won
    /\ state.current_room = "kitchen"
    /\ "brass_key" \in Range(state.inventory)

(* Condition atoms over the flags, objects and attributes of the games;    *)
(* the last two name an object and an attribute that do not exist.         *)
ConditionAtoms ==
    {FlagsAtom("has_code"), BareAtom("blessed"), InvAtom("coin"),
     AttrAtom("box", "is_open"),
     AttrAtom("nothing", "locked"), AttrAtom("box", "colour")}

(* C18: in every reachable state and for all atoms A, B, C, the condition  *)
(* "A || B && C" evaluates to (A or B) and C, "!A && B" evaluates to (not  *)
(* A) and B, and an object.attribute atom naming a missing object or a     *)
(* missing attribute evaluates to false.                                   *)
C18_ConditionPrecedence ==
    /\ \A A \in ConditionAtoms, B \in ConditionAtoms, C \in ConditionAtoms :
          /\ evaluate_condition(<<A, OrTok, B, AndTok, C>>, state)
                <=> /\ \/ evaluate_condition(<<A>>, state)
                       \/ evaluate_condition(<<B>>, state)
                    /\ evaluate_condition(<<C>>, state)
          /\ evaluate_condition(<<Not(A), AndTok, B>>, state)
                <=> /\ ~evaluate_condition(<<A>>, state)
                    /\ evaluate_condition(<<B>>, state)
    /\ \A atom \in ConditionAtoms :
          (/\ atom.kind = "attr"
           /\ \/ atom.a \notin DOMAIN state.objects
              \/ atom.b \notin {"location", "is_open", "locked", "is_lit", "worn",
                                "hidden", "examined"}) =>
              ~evaluate_condition(<<atom>>, state)

(* USE LEVER failed with the box open and the gem not held: the lever's    *)
(* condition "box.is_open || pouch.is_open && inventory.includes('gem')"   *)
(* was read as (A or B) and C.                                             *)
C18_Witness ==
    /\ game = VaultGame
    /\ call.input = <<"use", " ", "lever">>
    /\ call.path = "dispatch"
    /\ result.error
    /\ state.objects["box"].is_open
    /\ state.objects["pouch"].is_open
    /\ "gem" \notin Range(state.inventory)
    /\ "lever_pulled" \notin DOMAIN state.flags

(* C19: whenever a custom action with consumes_object set is executed      *)
(* successfully, by USE on the object used or by INSERT on the object      *)
(* inserted, that object is no longer in the inventory list and its        *)
(* location is "nowhere".                                                  *)
C19_ConsumesObject ==
    [][(CalledWithCommand /\ call'.path = "dispatch" /\ ~result'.error) =>
         \A r \in {resolve(game, state, call'.command).resolved} :
            \A obj \in {get_object(game, r.direct_object_id)},
               target \in {get_object(game, r.indirect_object_id)} :
               /\ (/\ r.verb = "USE"
                   /\ obj.id # None
                   /\ target.id = None
                   /\ "use" \in DOMAIN obj.actions
                   /\ obj.actions["use"].consumes_object) =>
                      /\ obj.id \notin Range(state'.inventory)
                      /\ state'.objects[obj.id].location = "nowhere"
               /\ (/\ r.verb = "INSERT"
                   /\ obj.id # None
                   /\ target.id # None
                   /\ ("insert:" \o obj.id) \in DOMAIN target.actions
                   /\ target.actions["insert:" \o obj.id].consumes_object) =>
                      /\ obj.id \notin Range(state'.inventory)
                      /\ state'.objects[obj.id].location = "nowhere"]_vars

(* C20: when the condition of the rule-form custom action that a command   *)
(* consults (EXAMINE, USE, TALK and ENTER on the object, GIVE on the       *)
(* object with the recipient's key) evaluates false, the call reports      *)
(* failure and flags, every object's runtime state, the inventory and the  *)
(* current room are unchanged.                                             *)
C20_FalseConditionNoEffect ==
    [][(CalledWithCommand /\ call'.path \in {"dispatch", "enter"}) =>
         \A r \in {resolve(game, state, call'.command).resolved} :
            \A obj \in {get_object(game, r.direct_object_id)} :
               \A key \in {CASE r.verb = "EXAMINE" -> "examine"
                             [] r.verb = "USE" /\ r.indirect_object_id = None -> "use"
                             [] r.verb = "TALK" -> "talk"
                             [] r.verb = "IN" -> "enter"
                             [] r.verb = "GIVE" /\ r.indirect_object_id # None
                                   /\ obj.id \in Range(state.inventory) ->
                                   "give:" \o r.indirect_object_id
                             [] OTHER -> None} :
                  (/\ obj.id # None
                   /\ key \in DOMAIN obj.actions
                   /\ ~obj.actions[key].is_str
                   /\ obj.actions[key].condition # <<>>
                   /\ ~evaluate_condition(obj.actions[key].condition, state)) =>
                      /\ result'.error
                      /\ state'.flags = state.flags
                      /\ state'.objects = state.objects
                      /\ state'.inventory = state.inventory
                      /\ state'.current_room = state.current_room]_vars

RoomTextWith(g, s, room, body) ==
    Join(<<"**" \o room.name \o "**", "", body>>
         \o (IF ListedObjects(g, s, room.id) # <<>>
             THEN <<"">> \o [i \in DOMAIN ListedObjects(g, s, room.id) |->
                               "There is a " \o ListedObjects(g, s, room.id)[i].name
                                   \o " here."]
             ELSE <<>>)
         \o <<"", describe_exits(room)>>, "\n")

(* C22: a movement command in a direction whose exit exists and is not     *)
(* locked sets current_room to the exit's target, marks the target         *)
(* visited, and returns the target's description with the first-visit     *)
(* text if and only if the room has one and had not been visited before    *)
(* (followed by the win message when the move wins); a direction with no   *)
(* exit returns error=true with "You can't go <direction> from here." and   *)
(* changes nothing.                                                        *)
C22_Movement ==
    [][(CalledWithCommand /\ call'.path = "movement") =>
         \A direction \in {direction_map[call'.command.verb]},
            room \in {get_room(game, state.current_room)} :
            /\ (\A i \in DOMAIN room.exits : room.exits[i].direction # direction) =>
                  /\ result'.error
                  /\ result'.message = "You can't go " \o direction \o " from here."
                  /\ state' = state
            /\ \A i \in DOMAIN room.exits :
                  (/\ room.exits[i].direction = direction
                   /\ room.exits[i].exit.is_str \/ ~room.exits[i].exit.locked) =>
                     \A target \in {get_room(game, room.exits[i].exit.target)} :
                        \A body \in {IF /\ target.first_visit_description # None
                                        /\ ~state.rooms[target.id].visited
                                     THEN target.first_visit_description
                                     ELSE target.description} :
                           /\ ~result'.error
                           /\ state'.current_room = target.id
                           /\ state'.rooms[target.id].visited
                           /\ result'.message \in
                                 {RoomTextWith(game, state, target, body),
                                  RoomTextWith(game, state, target, body) \o "\n\n"
                                      \o game.win_condition.win_message}]_vars

(* The cave was entered a second time: the third move of in, out, in.      *)
C22_Witness ==
    /\ game = CampGame
    /\ call.input = <<"in">>
    /\ call.path = "movement"
    /\ state.current_room = "cave"
    /\ state.turns = 3
    /\ result.message = RoomTextWith(game, state, get_room(game, "cave"), "A cave.")

(* C23: describe_current_room changes nothing in the state except visited  *)
(* of the current room, which it sets; a second call in a row changes      *)
(* nothing more; bare LOOK changes neither the turn counter, the           *)
(* inventory, the flags, any object's state nor game_over.                 *)
C23_DescribeIdempotent ==
    [][/\ call'.op = "describe_current_room" =>
             /\ state' = [state EXCEPT !.rooms[state.current_room].visited = TRUE]
             /\ describe_current_room(game, state').state = state'
       /\ (Called /\ call'.path = "look") =>
             /\ state' = [state EXCEPT !.rooms[state.current_room].visited = TRUE]
             /\ state'.turns = state.turns
             /\ state'.inventory = state.inventory
             /\ state'.flags = state.flags
             /\ state'.objects = state.objects
             /\ state'.game_over = state.game_over
             /\ describe_current_room(game, state').state = state']_vars

(* LOOK in the kitchen, reached through the hatch of the closet in two     *)
(* turns: the custom action moved the player without a description, and    *)
(* LOOK is what marked the kitchen visited.                                *)
C23_Witness ==
    /\ game = HallGame
    /\ call.path = "look"
    /\ state.current_room = "kitchen"
    /\ state.turns = 2
    /\ state.rooms["closet"].visited
    /\ state.rooms["kitchen"].visited

C26_ArticlesOnly ==
    [][(/\ Called
        /\ ~state.game_over
        /\ \A i \in DOMAIN call'.input :
               call'.input[i] \in {"a", "an", "the", "A", "AN", "An", "The", "THE",
                                   "", " ", "  ", "\t"}) =>
          /\ tokenize(call'.input) = <<>>
          /\ GameParser_parse(game, call'.input).kind = "fail"
          /\ GameParser_parse(game, call'.input).message = "I beg your pardon?"
          /\ result'.message = "I beg your pardon?"
          /\ result'.error
          /\ ~result'.game_over
          /\ call'.command = NoCommand
          /\ state' = state]_vars

(* "a AN the", typed after a TAKE that changed the state, was rejected.    *)
C26_Witness ==
    /\ call.input = <<"a", " ", "AN", " ", "the">>
    /\ call.op = "process_input"
    /\ result.error
    /\ result.message = "I beg your pardon?"
    /\ state.turns = 1
    /\ state.inventory # <<>>
    /\ ~state.game_over

(* C25: the state built from a definition has turns 0, game_over and won   *)
(* false, the starting room as current room, the initial inventory in its  *)
(* order, every object of the initial inventory at "inventory" and every   *)
(* other object at its defined location, and every room unvisited except   *)
(* the starting room.                                                      *)
C25_InitialState ==
    call.op = "init" =>
        /\ state.turns = 0
        /\ ~state.game_over
        /\ ~state.won
        /\ state.current_room = game.initial_state.current_room
        /\ state.inventory = game.initial_state.inventory
        /\ DOMAIN state.objects = {game.objects[i].id : i \in DOMAIN game.objects}
        /\ \A i \in DOMAIN game.objects :
               state.objects[game.objects[i].id].location =
                   IF \E k \in DOMAIN game.initial_state.inventory :
                          game.initial_state.inventory[k] = game.objects[i].id
                   THEN "inventory"
                   ELSE game.objects[i].location
        /\ DOMAIN state.rooms = {game.rooms[i].id : i \in DOMAIN game.rooms}
        /\ \A i \in DOMAIN game.rooms :
               state.rooms[game.rooms[i].id].visited
                   <=> game.rooms[i].id = game.initial_state.current_room

(* A session built from a definition that starts with the rope and the map *)
(* carried: both are at "inventory", the anchor is still on the dock.      *)
C25_Witness ==
    /\ call.op = "init"
    /\ game = PackedGame
    /\ state.inventory = <<"rope", "map">>
    /\ state.objects["rope"].location = "inventory"
    /\ state.objects["map"].location = "inventory"
    /\ state.objects["anchor"].location = "dock"
    /\ state.rooms["dock"].visited
    /\ ~state.rooms["pier"].visited

EffectsShow(action, s) ==
    /\ \A i \in DOMAIN action.state_changes :
          \E ch \in {action.state_changes[i]} :
              IF ch.target \in {"", "flags"}
              THEN ch.attr \in DOMAIN s.flags /\ s.flags[ch.attr] = ch.value
              ELSE (/\ ch.target \in DOMAIN s.objects
                    /\ ch.attr \in DOMAIN s.objects[ch.target]) =>
                       s.objects[ch.target][ch.attr] = ch.value
    /\ (action.reveals_object # None /\ action.reveals_object \in DOMAIN s.objects) =>
          ~s.objects[action.reveals_object].hidden
    /\ action.moves_player # None => s.current_room = action.moves_player

(* The action the handler consulted under the key, its condition absent or *)
(* true, was reported as a success with its own message.                   *)
RanAsSuccess(obj, key, s, res) ==
    /\ key \in DOMAIN obj.actions
    /\ ~obj.actions[key].is_str
    /\ \/ obj.actions[key].condition = <<>>
       \/ evaluate_condition(obj.actions[key].condition, s)
    /\ ~res.error
    /\ res.message = obj.actions[key].message

(* C29: whenever EXAMINE (key "examine"), GIVE (key "give:<recipient>") or *)
(* USE (key "use") runs a rule-form custom action whose condition is       *)
(* absent or true and reports its message as a success, every effect of    *)
(* the action has been applied to the state.                               *)
C29_EffectsApplied ==
    [][(CalledWithCommand /\ call'.path = "dispatch"
        /\ call'.command.verb \in {"EXAMINE", "GIVE", "USE"}) =>
          \E r \in {resolve(game, state, call'.command).resolved} :
              \E obj \in {get_object(game, r.direct_object_id)} :
                  /\ (r.verb = "EXAMINE" /\ RanAsSuccess(obj, "examine", state, result'))
                        => EffectsShow(obj.actions["examine"], state')
                  /\ (/\ r.verb = "GIVE"
                      /\ r.indirect_object_id # None
                      /\ RanAsSuccess(obj, "give:" \o r.indirect_object_id, state, result'))
                        => EffectsShow(obj.actions["give:" \o r.indirect_object_id], state')
                  /\ (/\ r.verb = "USE"
                      /\ r.indirect_object_id = None
                      /\ RanAsSuccess(obj, "use", state, result'))
                        => EffectsShow(obj.actions["use"], state')]_vars

GrewRecord(sess, after) ==
    \/ after.rooms_visited # sess.rooms_visited
    \/ after.items_collected # sess.items_collected

(* The rules of stuck_count (doubled): play gives up, issuing nothing, as  *)
(* soon as a loop iteration starts with stuck_count >= max_stuck_turns; a  *)
(* turn resets it to 0 if it grew the record of rooms or items, adds 1 if  *)
(* its result is an error and 0.5 otherwise.                               *)
StuckRules ==
    /\ (/\ session.pc = "loop"
        /\ session.turns < session.max_turns
        /\ session.stuck_count >= 2 * session.max_stuck_turns) =>
           /\ session'.gave_up
           /\ session'.pc = "done"
           /\ session'.turns = session.turns
           /\ state' = state
    /\ session'.gave_up =>
           session.stuck_count >= 2 * session.max_stuck_turns
    /\ session'.turns = session.turns + 1 =>
           session'.stuck_count =
               IF GrewRecord(session, session') THEN 0
               ELSE IF result'.error THEN session.stuck_count + 2
               ELSE session.stuck_count + 1

(* C28 as stated: the rules above, and a run of consecutive failing        *)
(* commands that ends in giving up is exactly max_stuck_turns long.        *)
C28_AsStated ==
    [][/\ StuckRules
       /\ (session'.gave_up /\ ~session.gave_up /\ call.failing_run > 0) =>
              call.failing_run = session.max_stuck_turns]_vars

(* C28, amended: the rules above, and a run of consecutive failing         *)
(* commands without progress that ends in giving up is as long as it takes *)
(* to bring stuck_count from its value c before the run to max_stuck_turns *)
(* in steps of 1: the least n with c + n >= max_stuck_turns, which is      *)
(* max_stuck_turns only when c < 1.                                        *)
C28_StuckCounting ==
    [][/\ StuckRules
       /\ (session'.gave_up /\ ~session.gave_up /\ call.failing_run > 0) =>
              /\ call.run_start + 2 * call.failing_run >= 2 * session.max_stuck_turns
              /\ call.run_start + 2 * (call.failing_run - 1)
                     < 2 * session.max_stuck_turns
              /\ call.run_start < 2 => call.failing_run = session.max_stuck_turns]_vars

(* With max_stuck_turns = 2, two LOOKs brought stuck_count to 1.0 and one  *)
(* failing command after them made the player give up.                     *)
C28_Witness ==
    /\ session.gave_up
    /\ session.max_stuck_turns = 2
    /\ session.turns = 3
    /\ call.failing_run = 1
    /\ call.run_start = 2
    /\ result.error

(* C31: when the first word of the input is a direction word (north, n,    *)
(* south, s, east, e, west, w, up, u, down, d, out, exit), the parser      *)
(* returns that direction's command with no direct and no indirect object, *)
(* whatever words follow.                                                  *)
C31_DirectionsTakeNoArguments ==
    [][(Called /\ ~state.game_over) =>
          \E words \in {tokens_to_words(tokenize(call'.input))} :
              (/\ words # <<>>
               /\ words[1] \in {"north", "n", "south", "s", "east", "e", "west", "w",
                                 "up", "u", "down", "d", "out", "exit"}) =>
                 \E parsed \in {GameParser_parse(game, call'.input)} :
                     /\ parsed.kind = "ok"
                     /\ parsed.command.verb \in {"NORTH", "SOUTH", "EAST", "WEST",
                                                  "UP", "DOWN", "OUT"}
                     /\ parsed.command.direct_object = <<>>
                     /\ parsed.command.indirect_object = <<>>
                     /\ call'.command = parsed.command]_vars

(* C32: an object id is in the inventory list exactly when the object's    *)
(* location is "inventory", and no id is in the list twice.  (No action of *)
(* the modelled definitions writes a location attribute, and their initial *)
(* states agree.)                                                          *)
C32_InventoryConsistent ==
    /\ \A id \in DOMAIN state.objects :
          (\E k \in DOMAIN state.inventory : state.inventory[k] = id)
              <=> state.objects[id].location = "inventory"
    /\ \A j, k \in DOMAIN state.inventory :
          state.inventory[j] = state.inventory[k] => j = k

(* Following object-inside-object locations from cur for at most n steps   *)
(* comes back to start.                                                    *)
RECURSIVE ChainReturns(_, _, _, _)
ChainReturns(s, start, cur, n) ==
    /\ n > 0
    /\ cur \in DOMAIN s.objects
    /\ \/ s.objects[cur].location = start
       \/ ChainReturns(s, start, s.objects[cur].location, n - 1)

(* C33: containment stays acyclic: no object's location is its own id and  *)
(* no chain of object-inside-object locations returns to its start.        *)
C33_ContainmentAcyclic ==
    \A id \in DOMAIN state.objects :
        ~ChainReturns(state, id, id, Cardinality(DOMAIN state.objects))

C35_KeyMustBeHeld ==
    [][(/\ CalledWithCommand
        /\ call'.command.verb \in {"LOCK", "UNLOCK"}
        /\ call'.path = "dispatch") =>
          \E X \in {resolve(game, state, call'.command).resolved.direct_object_id} :
          \E Y \in {resolve(game, state, call'.command).resolved.indirect_object_id} :
              /\ ~result'.error =>
                     /\ get_object(game, X).lockable
                     /\ get_object(game, X).key_object = Y
                     /\ \E i \in DOMAIN state.inventory : state.inventory[i] = Y
              /\ (result'.error /\ X \in DOMAIN state.objects) =>
                     state'.objects[X].locked = state.objects[X].locked]_vars

(* A custom action of the game writes the locked or the is_open attribute. *)
WritesLockedOrOpen(g) ==
    \E i \in DOMAIN g.objects : \E key \in DOMAIN g.objects[i].actions :
        \E k \in DOMAIN g.objects[i].actions[key].state_changes :
            g.objects[i].actions[key].state_changes[k].attr \in {"locked", "is_open"}

(* C36: in a game without a custom action that writes locked or is_open,  *)
(* whose objects do not start locked and open, no object is ever locked    *)
(* and open at once: OPEN on a locked object and LOCK on an open object    *)
(* fail and leave the session as it was.                                   *)
C36_NeverLockedAndOpen ==
    [][(/\ ~WritesLockedOrOpen(game)
        /\ \A i \in DOMAIN game.objects :
               ~(game.objects[i].locked /\ game.objects[i].is_open)) =>
          /\ \A id \in DOMAIN state.objects :
                 ~(state.objects[id].locked /\ state.objects[id].is_open)
          /\ \A id \in DOMAIN state'.objects :
                 ~(state'.objects[id].locked /\ state'.objects[id].is_open)
          /\ (CalledWithCommand /\ call'.path = "dispatch") =>
                 \E X \in {resolve(game, state, call'.command).resolved.direct_object_id} :
                     /\ (/\ call'.command.verb = "OPEN"
                         /\ X \in DOMAIN state.objects
                         /\ state.objects[X].locked) =>
                            result'.error /\ state'.objects = state.objects
                     /\ (/\ call'.command.verb = "LOCK"
                         /\ X \in DOMAIN state.objects
                         /\ state.objects[X].is_open) =>
                            result'.error /\ state'.objects = state.objects]_vars

(* LOCK CHEST WITH KEY was refused on the chest that had been unlocked and *)
(* opened.                                                                 *)
C36_Witness ==
    /\ game = CellarGame
    /\ call.path = "dispatch"
    /\ call.command.verb = "LOCK"
    /\ result.error
    /\ result.message = "You'll need to close it first."
    /\ state.objects["chest"].is_open
    /\ ~state.objects["chest"].locked

(* C37: after every process_input call the room the player is in is marked *)
(* visited, whether the player walked there or was moved there by a custom *)
(* action.                                                                 *)
C37_CurrentRoomVisited ==
    [][Called =>
          (state'.current_room \in DOMAIN state'.rooms =>
               state'.rooms[state'.current_room].visited)]_vars

(* Every exit target and every moves_player value names a room of the game. *)
TargetsExist(g) ==
    /\ \A i \in DOMAIN g.rooms : \A k \in DOMAIN g.rooms[i].exits :
           \E j \in DOMAIN g.rooms : g.rooms[j].id = g.rooms[i].exits[k].exit.target
    /\ \A i \in DOMAIN g.objects : \A key \in DOMAIN g.objects[i].actions :
           \/ g.objects[i].actions[key].moves_player = None
           \/ \E j \in DOMAIN g.rooms :
                  g.rooms[j].id = g.objects[i].actions[key].moves_player

(* C38: when every exit target and every moves_player value names a room   *)
(* of the game, current_room is always the id of one of the game's rooms    *)
(* and no call answers "You are nowhere.".                                  *)
C38_CurrentRoomDefined ==
    TargetsExist(game) =>
        /\ \E j \in DOMAIN game.rooms : game.rooms[j].id = state.current_room
        /\ result.message # "You are nowhere."

(* ENTER HATCH moved the player into the kitchen, a room of the game. *)
C38_Witness ==
    /\ game = HallGame
    /\ call.op = "process_input"
    /\ call.path = "enter"
    /\ ~result.error
    /\ state.current_room = "kitchen"
    /\ TargetsExist(game)

(* C39: after every process_input call the returned TurnResult agrees with *)
(* the session: result.game_over is state.game_over, result.won is          *)
(* state.won, and a result with won has game_over and no error.             *)
C39_ResultAgreesWithState ==
    [][Called =>
          /\ result'.game_over = state'.game_over
          /\ result'.won = state'.won
          /\ result'.won => (result'.game_over /\ ~result'.error)]_vars

(* C40: a room once visited stays visited, and a call (process_input or    *)
(* describe_current_room) returns the description of a room built around   *)
(* its first_visit_description only for a room other than the starting     *)
(* room that was not visited before the call and is visited after it: the  *)
(* starting room's first-visit text is never shown, and any other room's   *)
(* at most once.                                                           *)
C40_FirstVisitTextOnce ==
    [][/\ \A id \in DOMAIN state.rooms :
              state.rooms[id].visited =>
                  (id \in DOMAIN state'.rooms /\ state'.rooms[id].visited)
       /\ call'.op \in {"process_input", "describe_current_room"} =>
              \A i \in DOMAIN game.rooms :
                  (/\ game.rooms[i].first_visit_description # None
                   /\ result'.message \in
                          {RoomTextWith(game, state', game.rooms[i],
                                        game.rooms[i].first_visit_description),
                           RoomTextWith(game, state', game.rooms[i],
                                        game.rooms[i].first_visit_description)
                               \o "\n\n" \o game.win_condition.win_message}) =>
                     /\ game.rooms[i].id # game.initial_state.current_room
                     /\ ~state.rooms[game.rooms[i].id].visited
                     /\ state'.rooms[game.rooms[i].id].visited]_vars

(* Back at the camp after a visit to the cave: the camp, which has a       *)
(* first_visit_description, is described with its plain description.       *)
C40_Witness ==
    /\ game = CampGame
    /\ call.op = "process_input"
    /\ call.path = "movement"
    /\ call.input = <<"out">>
    /\ state.current_room = "camp"
    /\ state.rooms["cave"].visited
    /\ state.turns = 2
    /\ result.message = RoomTextWith(game, state, get_room(game, "camp"), "A camp.")

====
